---------------------------- MODULE Spec2Model ----------------------------
(***************************************************************************)
(* Anime episode release tracker: the reminder dispatch engine             *)
(* (src/src/jobs/scheduler.js) over the SQLite tables of src/src/db.js,    *)
(* the AniList reconciliation engine (anilistSyncService, the second       *)
(* module of src/src/services/emailService.js), and the account, session   *)
(* and reminder routes of src/src/server.js with the password and token    *)
(* functions of src/src/services/authService.js.                           *)
(*                                                                         *)
(* Time is in milliseconds since the model's origin (new Date().getTime()  *)
(* minus a fixed epoch).  release_at is stored as the ISO-8601 text that   *)
(* Date.prototype.toISOString produces; that text has millisecond          *)
(* precision, a fixed width and orders as the instants do, so a release_at *)
(* is held as its instant and BETWEEN compares instants.                   *)
(***************************************************************************)
EXTENDS Integers, Sequences, FiniteSets, TLC

VARIABLES
    now,               \* the wall clock, ms
    users,             \* table users: set of rows
    user_sessions,     \* table user_sessions: set of rows
    email_verification_tokens,  \* table email_verification_tokens
    password_reset_tokens,      \* table password_reset_tokens
    oauth_state_tokens,         \* table oauth_state_tokens
    issued,            \* the number of tokens createSessionToken has produced
    response,          \* the HTTP response of the last request handled
    anime,             \* table anime: set of rows
    episodes,          \* table episodes: set of rows
    reminders,         \* table reminders: set of rows
    notification_log,  \* table notification_log: set of rows
    scans,             \* the runReminderScan invocations in flight, by trigger
    cronFiredAt,       \* the instant of the last '* * * * *' cron tick
    delivered,         \* history: successful deliver calls per triple
    failedTriples,     \* history: triples with a failed delivery attempt
    dueCount,          \* history: cron scans at which a pair passed the due test
    upstream,          \* the airing schedules AniList holds
    syncs,             \* the runAniListSyncSafe invocations in flight, by trigger
    sync_state,        \* table sync_state
    batchRuns          \* history: batches run on the present upstream data (0, 1, many)

syncVars == <<upstream, syncs, sync_state, batchRuns>>

authVars == <<users, user_sessions, email_verification_tokens,
              password_reset_tokens, oauth_state_tokens, issued, response>>

vars == <<now, authVars, anime, episodes, reminders, notification_log, scans,
          cronFiredAt, delivered, failedTriples, dueCount, syncVars>>

----------------------------------------------------------------------------
(* Values *)

\* SQL NULL in an INTEGER column that holds a row id (ids start at 1).
NullId == 0

\* SQL NULL in a TEXT column.
NullText == "NULL"

\* JavaScript truthiness of a nullable TEXT value and of a nullable id.
Truthy(v) == v \notin {NullText, ""}

TruthyId(v) == v # NullId

MinuteMs == 60 * 1000

\* scheduler.js:46
LookaheadMs == 48 * 60 * 60 * 1000

\* scheduler.js:60
DueWindowMs == 60 * 1000

\* server.js:744  Math.max(5, Math.min(1440, ...))
MinLeadMinutes == 5

MaxLeadMinutes == 1440

\* The clock moves in steps of half a cron period.
StepMs == MinuteMs \div 2

\* The clock stops after this many steps.
MaxClockSteps == 4

MaxNow == MaxClockSteps * StepMs

Channels == <<"email", "discord">>

Triggers == {"cron", "manual"}

----------------------------------------------------------------------------
(* Sequences from sets *)

Max(S) == CHOOSE x \in S : \A y \in S : y <= x

\* The rows of a set of <<key, row>> pairs as a sequence ordered by key,
\* ties by row id (the order SQLite's index walk gives).
RECURSIVE Ordered(_)
Ordered(S) ==
    IF S = {} THEN <<>>
    ELSE LET first == CHOOSE p \in S : \A q \in S :
                          \/ p[1] < q[1]
                          \/ p[1] = q[1] /\ p[2].id <= q[2].id
         IN <<first[2]>> \o Ordered(S \ {first})

ById(S) == Ordered({ <<r.id, r>> : r \in S })

ByReleaseAt(S) == Ordered({ <<r.release_at, r>> : r \in S })

----------------------------------------------------------------------------
(* The statements of scheduler.js *)

SelectRemindersInactiveToo ==
    LET joined == { [id |-> r.id, anime_id |-> r.anime_id, email |-> r.email,
                     discord_webhook_url |-> r.discord_webhook_url,
                     minutes_before |-> r.minutes_before,
                     user_email |-> u.email] :
                    <<r, u>> \in { p \in reminders \X users :
                                     p[2].id = p[1].user_id } }
    IN ById(joined)

\* selectReminders: reminders JOIN users LEFT JOIN anime WHERE is_active = 1
SelectReminders ==
    LET joined == { [id |-> r.id, anime_id |-> r.anime_id, email |-> r.email,
                     discord_webhook_url |-> r.discord_webhook_url,
                     minutes_before |-> r.minutes_before,
                     user_email |-> u.email] :
                    <<r, u>> \in { p \in reminders \X users :
                                     /\ p[2].id = p[1].user_id
                                     /\ p[1].is_active = 1 } }
    IN ById(joined)

SelectCandidatesShortLookahead(from, to) ==
    ByReleaseAt({ e \in episodes :
               /\ \E a \in anime : a.id = e.anime_id
               /\ e.release_at >= from
               /\ e.release_at <= from + MinuteMs * 60 })

\* selectCandidateEpisodes: episodes JOIN anime
\*   WHERE release_at BETWEEN ? AND ? ORDER BY release_at ASC
SelectCandidateEpisodes(from, to) ==
    ByReleaseAt({ e \in episodes :
               /\ \E a \in anime : a.id = e.anime_id
               /\ e.release_at >= from
               /\ e.release_at <= to })

WasSentWrongChannel(log, rid, eid, ch) ==
    \E row \in log : /\ row.reminder_id = rid
                     /\ row.episode_id = eid
                     /\ row.channel = "discord"

\* wasSentStmt.get(reminder_id, episode_id, channel)
WasSent(log, rid, eid, ch) ==
    \E row \in log : /\ row.reminder_id = rid
                     /\ row.episode_id = eid
                     /\ row.channel = ch

NextLogId(log) == IF log = {} THEN 1 ELSE Max({ row.id : row \in log }) + 1

InsertLogNoUnique(log, rid, eid, ch) ==
    [ok  |-> TRUE,
     log |-> log \cup {[id |-> NextLogId(log), reminder_id |-> rid,
                        episode_id |-> eid, channel |-> ch]}]

InsertLogFirstChannel(log, rid, eid, ch) ==
    IF WasSent(log, rid, eid, "email")
    THEN [ok |-> FALSE, log |-> log]
    ELSE [ok  |-> TRUE,
          log |-> log \cup {[id |-> NextLogId(log), reminder_id |-> rid,
                             episode_id |-> eid, channel |-> "email"]}]

\* insertLogStmt.run(reminder_id, episode_id, channel) under
\* UNIQUE(reminder_id, episode_id, channel) and the two foreign keys:
\* a violated constraint throws and leaves the table as it was.
InsertLog(log, rid, eid, ch) ==
    IF \/ WasSent(log, rid, eid, ch)
       \/ ~ \E r \in reminders : r.id = rid
       \/ ~ \E e \in episodes : e.id = eid
    THEN [ok |-> FALSE, log |-> log]
    ELSE [ok  |-> TRUE,
          log |-> log \cup {[id |-> NextLogId(log), reminder_id |-> rid,
                             episode_id |-> eid, channel |-> ch]}]

----------------------------------------------------------------------------
(* runReminderScan *)

TriggerAt(reminder, episode) ==
    episode.release_at - reminder.minutes_before * 60 * 1000

PairIsDueNoUpperBound(at, reminder, episode) ==
    ~ (at - TriggerAt(reminder, episode) < 0)

\* scheduler.js:56-62: the pair is skipped when diffMs < 0 or diffMs > 60 s
PairIsDue(at, reminder, episode) ==
    LET diffMs == at - TriggerAt(reminder, episode)
    IN ~ (diffMs < 0 \/ diffMs > DueWindowMs)

\* scheduler.js:52-54
FilterMatches(reminder, episode) ==
    ~ (TruthyId(reminder.anime_id) /\ reminder.anime_id # episode.anime_id)

TargetOwnOnly(reminder, ch) ==
    IF ch = "email" THEN reminder.email ELSE reminder.discord_webhook_url

\* scheduler.js:66 and :76, the address a channel delivers to
Target(reminder, ch) ==
    IF ch = "email"
    THEN (IF Truthy(reminder.email) THEN reminder.email ELSE reminder.user_email)
    ELSE reminder.discord_webhook_url

\* The loops visit (reminder i, candidate j, channel c) in this order;
\* a visit is numbered k = 1 .. NumVisits.
NumVisits(s) == Len(s.reminders) * Len(s.candidates) * 2

VisitReminder(s, k) == s.reminders[((k - 1) \div (2 * Len(s.candidates))) + 1]

VisitEpisode(s, k) == s.candidates[(((k - 1) \div 2) % Len(s.candidates)) + 1]

VisitChannel(s, k) == Channels[((k - 1) % 2) + 1]

VisitTriple(s, k) ==
    <<VisitReminder(s, k).id, VisitEpisode(s, k).id, VisitChannel(s, k)>>

VisitDeliversAgain(s, k, log) ==
    LET r == VisitReminder(s, k)
        e == VisitEpisode(s, k)
        c == VisitChannel(s, k)
    IN /\ FilterMatches(r, e)
       /\ PairIsDue(s.now, r, e)
       /\ Truthy(Target(r, c))

\* Whether visit k reaches its `await send...` call.
VisitDelivers(s, k, log) ==
    LET r == VisitReminder(s, k)
        e == VisitEpisode(s, k)
        c == VisitChannel(s, k)
    IN /\ FilterMatches(r, e)
       /\ PairIsDue(s.now, r, e)
       /\ Truthy(Target(r, c))
       /\ ~ WasSent(log, r.id, e.id, c)

\* The synchronous run of the loops from visit k to the next await,
\* or past the last visit when no delivery is left.
RECURSIVE NextAwait(_, _, _)
NextAwait(s, k, log) ==
    IF k > NumVisits(s) THEN k
    ELSE IF VisitDelivers(s, k, log) THEN k
    ELSE NextAwait(s, k + 1, log)

IdleScan ==
    [pc |-> "idle", now |-> 0, reminders |-> <<>>, candidates |-> <<>>,
     pos |-> 0, raised |-> FALSE]

\* The scan positioned at visit k: suspended in its delivery call, or done.
Positioned(s, k) ==
    [s EXCEPT !.pc = IF k > NumVisits(s) THEN "done" ELSE "await", !.pos = k]

\* scheduler.js:43-48 and the loops up to the first await
BeginScan(at) ==
    LET s == [IdleScan EXCEPT
                !.now = at,
                !.candidates = SelectCandidateEpisodes(at, at + LookaheadMs),
                !.reminders = SelectReminders]
    IN Positioned(s, NextAwait(s, 1, notification_log))

SettledLogAlways(ok, log, triple) ==
    InsertLog(log, triple[1], triple[2], triple[3])

\* scheduler.js:68-73: insertLogStmt.run follows the await inside the try,
\* so it runs only when the delivery resolved.
SettledLog(ok, log, triple) ==
    IF ok THEN InsertLog(log, triple[1], triple[2], triple[3])
    ELSE [ok |-> FALSE, log |-> log]

OnDeliveryErrorRethrow(s, log) ==
    [s EXCEPT !.pc = "done", !.raised = TRUE]

\* scheduler.js:71-73 and :80-82: the catch logs, the loops go on
OnDeliveryError(s, log) ==
    Positioned(s, NextAwait(s, s.pos + 1, log))

----------------------------------------------------------------------------
(* anilistSyncService: the statements *)

\* config.js:28  pageLimit, by default
PageLimit == 3

\* config.js:29 perPage is 10..50; the model's pages hold this many rows.
PerPage == 1

NextRowId(rows) == IF rows = {} THEN 1 ELSE Max({ r.id : r \in rows }) + 1

UpsertAnimeInsertOnly(rows, title, cover, synopsis, total, ext) ==
    rows \cup {[id |-> NextRowId(rows), title |-> title, cover_image_url |-> cover,
                synopsis |-> synopsis, total_episodes |-> total,
                source |-> "anilist", external_id |-> ext]}

UpsertAnimeAnySource(rows, title, cover, synopsis, total, ext) ==
    { [a EXCEPT !.title = title, !.cover_image_url = cover,
                !.synopsis = synopsis, !.total_episodes = total] : a \in rows }

\* upsertAnimeStmt: INSERT ... ON CONFLICT(source, external_id) DO UPDATE.
\* A new row takes the next AUTOINCREMENT id (ids are only compared, so the
\* gaps sqlite_sequence leaves after a conflicting upsert are not kept).
UpsertAnime(rows, title, cover, synopsis, total, ext) ==
    IF \E a \in rows : a.source = "anilist" /\ a.external_id = ext
    THEN { IF a.source = "anilist" /\ a.external_id = ext
           THEN [a EXCEPT !.title = title, !.cover_image_url = cover,
                          !.synopsis = synopsis, !.total_episodes = total]
           ELSE a : a \in rows }
    ELSE rows \cup {[id |-> NextRowId(rows), title |-> title,
                     cover_image_url |-> cover, synopsis |-> synopsis,
                     total_episodes |-> total,
                     source |-> "anilist", external_id |-> ext]}

\* findAnimeStmt.get(external_id): the id, or NullId when there is no row
FindAnime(rows, ext) ==
    LET found == { a \in rows : a.source = "anilist" /\ a.external_id = ext }
    IN IF found = {} THEN NullId
       ELSE (CHOOSE a \in found : \A b \in found : a.id <= b.id).id

UpsertEpisodeNoOrdinalIndex(rows, animeId, number, title, releaseAt, ext) ==
    [ok |-> TRUE,
     rows |-> rows \cup {[id |-> NextRowId(rows), anime_id |-> animeId,
                          episode_number |-> number, title |-> title,
                          release_at |-> releaseAt,
                          source |-> "anilist", external_id |-> ext]}]

UpsertEpisodeReplacing(rows, animeId, number, title, releaseAt, ext) ==
    LET kept == { e \in rows :
                    /\ ~ (e.source = "anilist" /\ e.external_id = ext)
                    /\ ~ (e.anime_id = animeId /\ e.episode_number = number) }
    IN [ok |-> TRUE,
        rows |-> kept \cup {[id |-> NextRowId(rows), anime_id |-> animeId,
                             episode_number |-> number, title |-> title,
                             release_at |-> releaseAt,
                             source |-> "anilist", external_id |-> ext]}]

\* upsertEpisodeStmt: INSERT ... ON CONFLICT(source, external_id) DO UPDATE
\* under UNIQUE(anime_id, episode_number).  The conflict target is checked
\* first; the insert, or the update of the row that holds the external id,
\* throws when another row holds (anime_id, episode_number).
UpsertEpisode(rows, animeId, number, title, releaseAt, ext) ==
    LET held == { e \in rows : e.source = "anilist" /\ e.external_id = ext }
        clash == \E e \in rows \ held :
                    e.anime_id = animeId /\ e.episode_number = number
    IN IF clash THEN [ok |-> FALSE, rows |-> rows]
       ELSE IF held # {}
       THEN [ok |-> TRUE,
             rows |-> { IF e \in held
                        THEN [e EXCEPT !.anime_id = animeId,
                                       !.episode_number = number,
                                       !.title = title, !.release_at = releaseAt]
                        ELSE e : e \in rows }]
       ELSE [ok |-> TRUE,
             rows |-> rows \cup {[id |-> NextRowId(rows), anime_id |-> animeId,
                                  episode_number |-> number, title |-> title,
                                  release_at |-> releaseAt,
                                  source |-> "anilist", external_id |-> ext]}]

EmptySyncState ==
    [anilist_last_sync |-> <<>>, anilist_last_result |-> <<>>,
     anilist_last_error |-> <<>>]

\* setSyncStateStmt.run(key, value): upsert on state_key
SetSyncState(state, key, value) == [state EXCEPT ![key] = <<value>>]

----------------------------------------------------------------------------
(* anilistSyncService: sanitizeText and the upstream items *)

\* A description is a sequence of tokens: "<br>", another tag "<i>" or
\* "</i>", an entity, white space " ", or a word.
IsTag(tok) == tok \in {"<i>", "</i>"}

Decoded(tok) ==
    CASE tok = "&amp;" -> "&"
      [] tok = "&quot;" -> "\""
      [] tok = "&#39;" -> "'"
      [] OTHER -> tok

\* .replace(/<br\s*\/?>(\s*)/gi, '\n'): a <br> and the white space after it
RECURSIVE BreaksReplaced(_)
BreaksReplaced(text) ==
    IF text = <<>> THEN <<>>
    ELSE IF Head(text) = "<br>"
    THEN LET RECURSIVE SkipSpace(_)
             SkipSpace(rest) ==
                 IF rest # <<>> /\ Head(rest) = " " THEN SkipSpace(Tail(rest))
                 ELSE rest
         IN <<"\n">> \o BreaksReplaced(SkipSpace(Tail(text)))
    ELSE <<Head(text)>> \o BreaksReplaced(Tail(text))

RECURSIVE Trimmed(_)
Trimmed(text) ==
    IF text = <<>> THEN <<>>
    ELSE IF Head(text) \in {" ", "\n"} THEN Trimmed(Tail(text))
    ELSE IF text[Len(text)] \in {" ", "\n"} THEN Trimmed(SubSeq(text, 1, Len(text) - 1))
    ELSE text

\* sanitizeText(value): null for a missing or empty text, else the text
\* without markup, entities decoded, trimmed; null when nothing is left.
SanitizeText(value) ==
    IF value = <<>> THEN <<>>
    ELSE LET noBreaks == BreaksReplaced(value)
             noTags == SelectSeq(noBreaks, LAMBDA tok : ~ IsTag(tok))
             decoded == [n \in 1..Len(noTags) |-> Decoded(noTags[n])]
         IN Trimmed(decoded)

\* String(id) of the ids the upstream uses
IdText(n) ==
    CASE n = 101 -> "101"
      [] n = 102 -> "102"
      [] n = 9001 -> "9001"
      [] n = 9002 -> "9002"
      [] n = 9003 -> "9003"

\* null, where the upstream sends no object (media, title)
NullObject == [null |-> TRUE]

Media(id) ==
    [id |-> id, type |-> "ANIME",
     title |-> IF id = 101
               THEN [english |-> "Frieren", romaji |-> "Sousou no Frieren",
                     native |-> NullText]
               ELSE [english |-> NullText, romaji |-> NullText, native |-> NullText],
     coverImage |-> IF id = 101 THEN [large |-> "l.png", medium |-> "m.png"]
                    ELSE [large |-> NullText, medium |-> NullText],
     description |-> IF id = 101 THEN <<"<i>", "An", "</i>", "<br>", " ", "elf", " ">>
                     ELSE <<>>,
     episodes |-> IF id = 101 THEN 28 ELSE NullId]

\* One airingSchedules node: schedule id, episode number, airingAt (s), media
Item(id, mediaId, number) ==
    [id |-> id, episode |-> number, airingAt |-> 86400 * number,
     media |-> Media(mediaId)]

Items == { Item(id, m, n) : id \in {9001, 9002}, m \in {101, 102}, n \in {1, 2} }

\* What the upstream can hold: schedule nodes with distinct ids.
UpstreamSets ==
    { S \in SUBSET Items : \A x \in S, y \in S : x.id = y.id => x = y }

\* airingSchedules(notYetAired: true, sort: TIME): by airing time, then id
RECURSIVE Served(_)
Served(S) ==
    IF S = {} THEN <<>>
    ELSE LET first == CHOOSE x \in S : \A y \in S :
                          \/ x.airingAt < y.airingAt
                          \/ x.airingAt = y.airingAt /\ x.id <= y.id
         IN <<first>> \o Served(S \ {first})

\* fetchAiringSchedulePage(page, perPage) of a request that succeeds
PageRows(list, page) ==
    SubSeq(list, (page - 1) * PerPage + 1,
           IF page * PerPage < Len(list) THEN page * PerPage ELSE Len(list))

----------------------------------------------------------------------------
(* runAniListSync: the transaction *)

\* `Anime ${externalAnimeId}`
FallbackTitle(ext) ==
    CASE ext = "101" -> "Anime 101"
      [] ext = "102" -> "Anime 102"

TitleOf(media) ==
    IF Truthy(media.title.english) THEN media.title.english
    ELSE IF Truthy(media.title.romaji) THEN media.title.romaji
    ELSE IF Truthy(media.title.native) THEN media.title.native
    ELSE FallbackTitle(IdText(media.id))

CoverOf(media) ==
    IF Truthy(media.coverImage.large) THEN media.coverImage.large
    ELSE IF Truthy(media.coverImage.medium) THEN media.coverImage.medium
    ELSE NullText

\* One pass of the loop body, emailService.js:172-206, on the transaction's
\* state tx = [ok, anime, episodes, insertedAnime, syncedEpisodes, thrown];
\* reading a property of a null title throws a TypeError (line 178).
SyncItem(tx, item) ==
    IF ~ tx.ok THEN tx
    ELSE IF item.media = NullObject THEN tx
    ELSE IF item.media.type # "ANIME" THEN tx
    ELSE IF item.episode = NullId \/ item.airingAt = NullId THEN tx
    ELSE IF item.media.title = NullObject
    THEN [tx EXCEPT !.ok = FALSE, !.thrown = "TypeError"]
    ELSE
      LET externalAnimeId == IdText(item.media.id)
          externalEpisodeId == IdText(item.id)
          animeRows == UpsertAnime(tx.anime, TitleOf(item.media), CoverOf(item.media),
                                   SanitizeText(item.media.description),
                                   item.media.episodes, externalAnimeId)
          animeId == FindAnime(animeRows, externalAnimeId)
          up == UpsertEpisode(tx.episodes, animeId, item.episode,
                              <<"Episode", item.episode>>,
                              item.airingAt * 1000, externalEpisodeId)
      IN IF animeId = NullId
         THEN [tx EXCEPT !.anime = animeRows, !.insertedAnime = @ + 1]
         ELSE IF ~ up.ok THEN [tx EXCEPT !.ok = FALSE, !.thrown = "constraint"]
         ELSE [tx EXCEPT !.anime = animeRows, !.episodes = up.rows,
                         !.insertedAnime = @ + 1, !.syncedEpisodes = @ + 1]

SyncItemsTorn(tx, items) ==
    IF items = <<>> THEN tx ELSE SyncItem(tx, Head(items))

RECURSIVE SyncItems(_, _)
SyncItems(tx, items) ==
    IF items = <<>> THEN tx
    ELSE SyncItems(SyncItem(tx, Head(items)), Tail(items))

RunTransactionNoRollback(rows) ==
    SyncItems([ok |-> TRUE, anime |-> anime, episodes |-> episodes,
               insertedAnime |-> 0, syncedEpisodes |-> 0, thrown |-> ""], rows)

\* db.transaction(...)(rows): all of the batch, or on a throw none of it
RunTransaction(rows) ==
    LET tx == SyncItems([ok |-> TRUE, anime |-> anime, episodes |-> episodes,
                         insertedAnime |-> 0, syncedEpisodes |-> 0, thrown |-> ""], rows)
    IN IF tx.ok THEN tx
       ELSE [tx EXCEPT !.anime = anime, !.episodes = episodes]

RecordFailureResetsSync(state, message) ==
    [EmptySyncState EXCEPT !["anilist_last_error"] = <<message>>]

\* runAniListSyncSafe's catch: setSyncStateStmt.run('anilist_last_error',
\* error.message), emailService.js:251-253
RecordFailure(state, message) == SetSyncState(state, "anilist_last_error", message)

GetAniListSyncStatusRaw(state) ==
    [lastSyncAt |-> state.anilist_last_sync,
     lastResult |-> state.anilist_last_result,
     lastError |-> state.anilist_last_error]

\* getAniListSyncStatus(), emailService.js:226-245: a key without a row, or
\* with an empty value, reads as null (<<>>); the stored result is parsed.
GetAniListSyncStatus(state) ==
    [lastSyncAt |-> state.anilist_last_sync,
     lastResult |-> state.anilist_last_result,
     lastError |-> IF state.anilist_last_error = <<"">> THEN <<>>
                   ELSE state.anilist_last_error]

IdleSync == [pc |-> "idle", page |-> 0, rows |-> <<>>, startedAt |-> 0, error |-> ""]

----------------------------------------------------------------------------
(* Initial states *)

Lead(m) == m * 60 * 1000

\* Release instants: the trigger of the shortest lead falls on a cron
\* instant, or between two cron instants.
ReleaseTimes == { Lead(MinLeadMinutes), Lead(MinLeadMinutes) + StepMs }

\* hashPassword(password), authService.js:3-7: `${salt}:${hash}` of a salt
\* and the scrypt digest of the password under that salt.
Scrypt(password, salt) == <<"scrypt", password, salt>>

HashPassword(password, salt) == <<salt, Scrypt(password, salt)>>

InitUsers ==
    { [id |-> 1, email |-> "owner@example.com",
       password_hash |-> HashPassword("password1", "s1"), email_verified |-> 1] }

\* body: the text of the JSON body of an account route that has no token
NoResponse == [route |-> "", status |-> 0, token |-> 0, rows |-> {}, body |-> ""]

\* No account request has been handled.
NoAuthTraffic ==
    /\ user_sessions = {}
    /\ email_verification_tokens = {}
    /\ password_reset_tokens = {}
    /\ oauth_state_tokens = {}
    /\ issued = 0
    /\ response = NoResponse

\* seedData, db.js:100-155: rows of source 'local' without external id
SeedAnime(id, title, total) ==
    [id |-> id, title |-> title, cover_image_url |-> "https://images.example/cover",
     synopsis |-> <<"seed", " ", "synopsis">>, total_episodes |-> total,
     source |-> "local", external_id |-> NullText]

InitAnime == { SeedAnime(1, "Skybound Blades", 12), SeedAnime(2, "Neon Ramen Club", 10) }

Episode(id, animeId, number, releaseAt) ==
    [id |-> id, anime_id |-> animeId, episode_number |-> number,
     title |-> <<"Arc", number>>, release_at |-> releaseAt,
     source |-> "local", external_id |-> NullText]

Reminder(id, animeId, email, hook, minutes) ==
    [id |-> id, user_id |-> 1, anime_id |-> animeId, email |-> email,
     discord_webhook_url |-> hook, minutes_before |-> minutes, is_active |-> 1]

\* POST /api/reminders: at least one channel, lead clamped to 5..1440
ReminderChannels ==
    { <<"r@example.com", NullText>>, <<NullText, "hook">>, <<"r@example.com", "hook">> }

InitReminders ==
    { {Reminder(1, a, c[1], c[2], m)} :
        a \in {NullId, 1}, c \in ReminderChannels,
        m \in {MinLeadMinutes, MaxLeadMinutes} }
    \cup
    { {Reminder(1, NullId, c[1], c[2], MinLeadMinutes),
       Reminder(2, 1, "r2@example.com", NullText, MinLeadMinutes)} :
        c \in ReminderChannels }

Triples == {1, 2} \X {1, 2} \X {"email", "discord"}

Pairs == {1, 2} \X {1, 2}

Init ==
    /\ now = 0
    /\ users = InitUsers
    /\ NoAuthTraffic
    /\ anime = InitAnime
    /\ \E t1 \in ReleaseTimes :
          episodes = { Episode(1, 1, 1, t1),
                       Episode(2, 2, 1, Lead(MaxLeadMinutes) + StepMs) }
    /\ reminders \in InitReminders
    /\ notification_log = {}
    /\ scans = [t \in Triggers |-> IdleScan]
    /\ cronFiredAt = -1
    /\ delivered = [t \in Triples |-> 0]
    /\ failedTriples = {}
    /\ dueCount = [p \in Pairs |-> 0]
    /\ upstream = {}
    /\ syncs = [t \in Triggers |-> IdleSync]
    /\ sync_state = EmptySyncState
    /\ batchRuns = 0

----------------------------------------------------------------------------
(* Actions *)

\* The pairs a scan at instant `at` finds due among its candidates.
DuePairs(s) ==
    { <<s.reminders[i].id, s.candidates[j].id>> :
        <<i, j>> \in { q \in (1..Len(s.reminders)) \X (1..Len(s.candidates)) :
                         PairIsDue(s.now, s.reminders[q[1]], s.candidates[q[2]]) } }

TickDueWhenSyncIdle ==
    /\ now % MinuteMs = 0
    /\ cronFiredAt # now
    /\ scans["cron"].pc = "idle"
    /\ syncs["cron"].pc = "idle"

\* The tick of the present minute has not fired yet: the scan job's timer
\* is independent of the sync job's.   scheduler.js:94
TickDue ==
    /\ now % MinuteMs = 0
    /\ cronFiredAt # now
    /\ scans["cron"].pc = "idle"

\* cron.schedule('* * * * *', ...) -> runReminderScan()   scheduler.js:94-98
CronTick ==
    /\ TickDue
    /\ LET s == BeginScan(now)
       IN /\ scans' = [scans EXCEPT !["cron"] = s]
          /\ dueCount' = [p \in Pairs |->
                            dueCount[p] + (IF p \in DuePairs(s) THEN 1 ELSE 0)]
    /\ cronFiredAt' = now
    /\ UNCHANGED <<now, authVars, anime, episodes, reminders, notification_log,
                   delivered, failedTriples, syncVars>>

\* POST /api/jobs/reminders/run -> runReminderScan()   server.js:768-771
\* (also the scan startScheduler runs at process start, scheduler.js:100)
ManualRun ==
    /\ scans["manual"].pc = "idle"
    /\ scans' = [scans EXCEPT !["manual"] = BeginScan(now)]
    /\ UNCHANGED <<now, authVars, anime, episodes, reminders, notification_log,
                   cronFiredAt, delivered, failedTriples, dueCount, syncVars>>

\* The delivery a scan awaits settles: sendEmailReminder / sendDiscordReminder
\* resolves (ok) or rejects; then insertLogStmt.run or the catch, and the
\* loops run on to the next await.   scheduler.js:66-83
DeliverySettles(t, ok) ==
    LET s == scans[t]
        triple == VisitTriple(s, s.pos)
        ins == SettledLog(ok, notification_log, triple)
        log == ins.log
    IN /\ s.pc = "await"
       /\ notification_log' = log
       /\ scans' = [scans EXCEPT ![t] =
                      IF ok /\ ins.ok
                      THEN Positioned(s, NextAwait(s, s.pos + 1, log))
                      ELSE OnDeliveryError(s, log)]
       /\ delivered' = IF ok THEN [delivered EXCEPT ![triple] = @ + 1] ELSE delivered
       /\ failedTriples' = IF ok THEN failedTriples ELSE failedTriples \cup {triple}
       /\ UNCHANGED <<now, authVars, anime, episodes, reminders, cronFiredAt, dueCount,
                    syncVars>>

\* runReminderScan's promise resolves (or rejects) to its caller.
ScanReturns(t) ==
    /\ scans[t].pc = "done"
    /\ scans' = [scans EXCEPT ![t] = IdleScan]
    /\ UNCHANGED <<now, authVars, anime, episodes, reminders, notification_log,
                   cronFiredAt, delivered, failedTriples, dueCount, syncVars>>

\* Time passes; the cron tick of a minute boundary is not skipped.
ClockAdvances ==
    /\ now < MaxNow
    /\ now % MinuteMs = 0 => cronFiredAt = now
    /\ now' = now + StepMs
    /\ UNCHANGED <<authVars, anime, episodes, reminders, notification_log, scans,
                   cronFiredAt, delivered, failedTriples, dueCount, syncVars>>

Next ==
    \/ CronTick
    \/ ManualRun
    \/ \E t \in Triggers, ok \in BOOLEAN : DeliverySettles(t, ok)
    \/ \E t \in Triggers : ScanReturns(t)
    \/ ClockAdvances

Spec == Init /\ [][Next]_vars

\* Scans that never overlap: an invocation starts only after the one
\* before it has returned.
NextSequential ==
    /\ Next
    /\ \E t \in Triggers : scans'[t].pc = "idle"

SpecSequential == Init /\ [][NextSequential]_vars

----------------------------------------------------------------------------
(* The reconciliation engine's runs *)

SyncInit ==
    /\ now = 0
    /\ users = InitUsers
    /\ NoAuthTraffic
    /\ anime = InitAnime
    /\ episodes = { Episode(1, 1, 1, Lead(MaxLeadMinutes)) }
    /\ reminders = { Reminder(1, NullId, "r@example.com", NullText, MinLeadMinutes) }
    /\ notification_log = {}
    /\ scans = [t \in Triggers |-> IdleScan]
    /\ cronFiredAt = -1
    /\ delivered = [t \in Triples |-> 0]
    /\ failedTriples = {}
    /\ dueCount = [p \in Pairs |-> 0]
    /\ upstream \in UpstreamSets
    /\ syncs = [t \in Triggers |-> IdleSync]
    /\ sync_state = EmptySyncState
    /\ batchRuns = 0

dispatchVars == <<now, authVars, reminders, notification_log, scans, cronFiredAt,
                  delivered, failedTriples, dueCount>>

\* runAniListSyncSafe() is called: by the cron job (scheduler.js:104-108),
\* at start (scheduler.js:110), or by POST /api/sync/anilist; the run
\* suspends in its first page request.   emailService.js:157-163
SyncStarts(t) ==
    /\ syncs[t].pc = "idle"
    /\ syncs' = [syncs EXCEPT ![t] =
                   [IdleSync EXCEPT !.pc = "fetch", !.page = 1, !.startedAt = now]]
    /\ UNCHANGED <<dispatchVars, anime, episodes, upstream, sync_state, batchRuns>>

\* emailService.js:168-223 on the fetched rows: the transaction, then the
\* three sync_state keys; a throw is caught by runAniListSyncSafe, which
\* records it (emailService.js:251-253).
FinishSync(t, rows) ==
    LET s == syncs[t]
        tx == RunTransaction(rows)
        result == [source |-> "anilist", fetchedRows |-> Len(rows),
                   syncedEpisodes |-> tx.syncedEpisodes,
                   touchedAnime |-> tx.insertedAnime, syncedAt |-> s.startedAt]
    IN /\ anime' = tx.anime
       /\ episodes' = tx.episodes
       /\ sync_state' =
             IF tx.ok
             THEN SetSyncState(
                    SetSyncState(
                      SetSyncState(sync_state, "anilist_last_sync", s.startedAt),
                      "anilist_last_result", result),
                    "anilist_last_error", "")
             ELSE RecordFailure(sync_state,
                                IF tx.thrown = "constraint"
                                THEN "UNIQUE constraint failed"
                                ELSE "Cannot read properties of null")
       /\ syncs' = [syncs EXCEPT ![t] =
                      [s EXCEPT !.pc = "done", !.rows = <<>>,
                                !.error = tx.thrown]]
       /\ batchRuns' = IF batchRuns = 0 THEN 1 ELSE 2

\* The page request a run awaits is answered.   emailService.js:162-166
FetchResolves(t) ==
    LET s == syncs[t]
        pageRows == PageRows(Served(upstream), s.page)
    IN /\ s.pc = "fetch"
       /\ IF pageRows = <<>> THEN FinishSync(t, s.rows)
          ELSE IF s.page + 1 > PageLimit THEN FinishSync(t, s.rows \o pageRows)
          ELSE /\ syncs' = [syncs EXCEPT ![t] =
                              [s EXCEPT !.rows = s.rows \o pageRows, !.page = s.page + 1]]
               /\ UNCHANGED <<anime, episodes, sync_state, batchRuns>>
       /\ UNCHANGED <<dispatchVars, upstream>>

\* The page request fails (no response, status not ok, GraphQL errors):
\* fetchAiringSchedulePage throws, emailService.js:144-152.
FetchRejects(t) ==
    /\ syncs[t].pc = "fetch"
    /\ sync_state' = RecordFailure(sync_state, "AniList request failed")
    /\ syncs' = [syncs EXCEPT ![t] = [@ EXCEPT !.pc = "done", !.error = "fetch"]]
    /\ UNCHANGED <<dispatchVars, anime, episodes, upstream, batchRuns>>

\* runAniListSyncSafe's promise resolves, or rejects with the error.
SyncReturns(t) ==
    /\ syncs[t].pc = "done"
    /\ syncs' = [syncs EXCEPT ![t] = IdleSync]
    /\ UNCHANGED <<dispatchVars, anime, episodes, upstream, sync_state, batchRuns>>

\* AniList's schedule changes between runs.
UpstreamChanges ==
    /\ \A t \in Triggers : syncs[t].pc = "idle"
    /\ upstream' \in UpstreamSets \ {upstream}
    /\ batchRuns' = 0
    /\ UNCHANGED <<dispatchVars, anime, episodes, syncs, sync_state>>

SyncNext ==
    \/ \E t \in Triggers : SyncStarts(t)
    \/ \E t \in Triggers : FetchResolves(t)
    \/ \E t \in Triggers : FetchRejects(t)
    \/ \E t \in Triggers : SyncReturns(t)
    \/ UpstreamChanges

SyncSpec == SyncInit /\ [][SyncNext]_vars

----------------------------------------------------------------------------
(* Properties of the dispatch engine *)

RowsIn(log, t) ==
    { row \in log : <<row.reminder_id, row.episode_id, row.channel>> = t }

RowsFor(t) == RowsIn(notification_log, t)

Running == { t \in Triggers : scans[t].pc # "idle" }

Awaiting == { t \in Triggers : scans[t].pc = "await" }

AwaitedTriple(t) == VisitTriple(scans[t], scans[t].pos)

\* Visit k of scan s is one the scan has to deliver unless the ledger has it:
\* filter matches, now within the 60 s after the trigger, channel has a target.
Planned(s, k) ==
    LET r == VisitReminder(s, k)
        e == VisitEpisode(s, k)
        c == VisitChannel(s, k)
    IN /\ (r.anime_id = NullId \/ r.anime_id = e.anime_id)
       /\ s.now - TriggerAt(r, e) >= 0
       /\ s.now - TriggerAt(r, e) <= MinuteMs
       /\ IF c = "email" THEN Truthy(r.email) \/ Truthy(r.user_email)
          ELSE Truthy(r.discord_webhook_url)

\* C1: for any (reminder, episode, channel) triple at most one
\* notification_log row exists in every reachable state, whatever the
\* sequence or overlap of cron and manual scans.
C1_AtMostOneLogRow ==
    \A t \in Triples : Cardinality(RowsFor(t)) <= 1

\* Two overlapping scans both delivered the triple; one row was written.
C1_Witness ==
    \E t \in Triples : delivered[t] >= 2 /\ Cardinality(RowsFor(t)) = 1

\* C2: for any triple the deliver call completes successfully at most once
\* over any interleaving of scans.
C2_DeliveredAtMostOnce ==
    \A t \in Triples : delivered[t] <= 1

\* C3: a scan treats a (reminder, episode) pair as due iff
\* 0 <= now - triggerAt < 60 s.
C3_DueIffHalfOpenWindow ==
    \A t \in Running :
        LET s == scans[t] IN
        \A i \in 1..Len(s.reminders), j \in 1..Len(s.candidates) :
            LET diff == s.now - TriggerAt(s.reminders[i], s.candidates[j]) IN
            (<<s.reminders[i].id, s.candidates[j].id>> \in DuePairs(s))
                <=> (0 <= diff /\ diff < MinuteMs)

\* C4: with cron scans at t0 + k * 60 s every (reminder, episode) pair passes
\* the due test at exactly one scan: never at two, and at one as soon as a
\* cron scan has run at or after the trigger instant.
C4_DueAtExactlyOneCronScan ==
    \A r \in reminders, e \in episodes :
        /\ dueCount[<<r.id, e.id>>] <= 1
        /\ (TriggerAt(r, e) >= 0 /\ cronFiredAt >= TriggerAt(r, e))
              => dueCount[<<r.id, e.id>>] = 1

\* C5: whenever a pair whose lead is within 5..1440 minutes passes the due
\* test at a scan's instant, the episode is among the scan's candidates.
C5_DuePairIsCandidate ==
    \A t \in Running :
        LET s == scans[t] IN
        \A i \in 1..Len(s.reminders) : \A e \in episodes :
            LET r == s.reminders[i]
                diff == s.now - TriggerAt(r, e)
            IN (/\ r.minutes_before >= MinLeadMinutes
                /\ r.minutes_before <= MaxLeadMinutes
                /\ diff >= 0 /\ diff <= MinuteMs)
               => \E j \in 1..Len(s.candidates) : s.candidates[j].id = e.id

\* A scan is suspended delivering for a reminder with the longest lead:
\* the episode, a day ahead, was in its candidate set.
C5_Witness ==
    \E t \in Awaiting :
        VisitReminder(scans[t], scans[t].pos).minutes_before = MaxLeadMinutes

\* A step in which the delivery awaited by scan t settles as a failure.
FailureStep(t) ==
    /\ scans[t].pc = "await"
    /\ scans'[t] # scans[t]
    /\ delivered' = delivered

\* The visits scan t runs through, without delivering, in this step.
PassedVisits(t) ==
    IF scans'[t] = scans[t] \/ scans'[t].pc = "idle" THEN {}
    ELSE (IF scans[t].pc = "idle" THEN 1 ELSE scans[t].pos + 1)
            .. (scans'[t].pos - 1)

\* C6: a failed delivery writes no notification_log row for its triple, and
\* a scan at which a pair is due never passes a triple that has no row
\* without attempting its delivery (so a failed triple is attempted again by
\* every later scan of its window until one attempt succeeds).
C6_FailureLeavesNoRowAndIsRetried ==
    [][\A t \in Triggers :
          /\ FailureStep(t) => notification_log' = notification_log
          /\ \A k \in PassedVisits(t) :
                Planned(scans'[t], k) =>
                    RowsIn(notification_log', VisitTriple(scans'[t], k)) # {}]_vars

\* A scan is delivering again for a triple whose earlier attempt failed.
C6_Witness ==
    \E t \in Awaiting :
        /\ AwaitedTriple(t) \in failedTriples
        /\ delivered[AwaitedTriple(t)] = 0
        /\ RowsFor(AwaitedTriple(t)) = {}

\* The first visit after k that scan s has to deliver, or NumVisits(s) + 1.
NextDue(s, k, log) ==
    LET later == { m \in (k + 1)..NumVisits(s) :
                     /\ Planned(s, m)
                     /\ ~ \E row \in log :
                           <<row.reminder_id, row.episode_id, row.channel>>
                              = VisitTriple(s, m) }
    IN IF later = {} THEN NumVisits(s) + 1
       ELSE CHOOSE m \in later : \A n \in later : m <= n

\* C7: a failed delivery neither aborts the scan nor is raised to the
\* caller: the scan goes on to the other channel of the pair and to every
\* remaining due pair.
C7_FailureDoesNotAbortScan ==
    [][\A t \in Triggers :
          FailureStep(t) =>
              /\ ~ scans'[t].raised
              /\ scans'[t].pos = NextDue(scans[t], scans[t].pos, notification_log)
              /\ scans'[t].pc = IF scans'[t].pos > NumVisits(scans[t])
                                THEN "done" ELSE "await"]_vars

\* A scan is delivering a later triple after an earlier delivery of the
\* same scan failed.
C7_Witness ==
    \E t \in Awaiting :
        \E k \in 1..(scans[t].pos - 1) :
            /\ Planned(scans[t], k)
            /\ VisitTriple(scans[t], k) \in failedTriples
            /\ RowsFor(VisitTriple(scans[t], k)) = {}

\* C8: a scan whose instant lies after the 60 s that follow the trigger
\* never attempts the triple, and a row exists only for a triple a delivery
\* succeeded for: a triple not delivered within its window has no record.
C8_MissedAfterWindow ==
    /\ \A t \in Awaiting :
          LET s == scans[t]
              diff == s.now - TriggerAt(VisitReminder(s, s.pos), VisitEpisode(s, s.pos))
          IN diff >= 0 /\ diff <= MinuteMs
    /\ \A row \in notification_log :
          delivered[<<row.reminder_id, row.episode_id, row.channel>>] >= 1

\* Every attempt of the triple failed, its window has closed, and a scan
\* started after that has run to its end without a row being written.
C8_Witness ==
    \E t \in Triggers, r \in reminders, e \in episodes, c \in {"email", "discord"} :
        /\ scans[t].pc = "done"
        /\ scans[t].now > TriggerAt(r, e) + MinuteMs
        /\ <<r.id, e.id, c>> \in failedTriples
        /\ delivered[<<r.id, e.id, c>>] = 0
        /\ RowsFor(<<r.id, e.id, c>>) = {}

\* The (reminder, episode) pairs of the end-to-end scenario: an active
\* reminder with its own email target whose filter is the episode's show.
ScenarioPairs ==
    { p \in reminders \X episodes :
        /\ p[1].is_active = 1
        /\ Truthy(p[1].email)
        /\ p[1].anime_id = p[2].anime_id }

\* C9: with scans run one after the other, a scan at now = T - L whose
\* delivery succeeds sends exactly one email and leaves exactly one row for
\* (reminder, episode, email), and a scan one minute later sends nothing
\* for that triple once the row exists.
C9_OneEmailOneRow ==
    \A p \in ScenarioPairs :
        LET t == <<p[1].id, p[2].id, "email">>
            trig == TriggerAt(p[1], p[2])
        IN /\ delivered[t] <= 1
           /\ Cardinality(RowsFor(t)) <= 1
           /\ \A x \in Triggers :
                 /\ (scans[x].pc = "done" /\ scans[x].now = trig
                        /\ t \notin failedTriples)
                      => (delivered[t] = 1 /\ Cardinality(RowsFor(t)) = 1)
                 /\ (scans[x].pc = "await" /\ scans[x].now = trig + MinuteMs
                        /\ AwaitedTriple(x) = t)
                      => (delivered[t] = 0 /\ RowsFor(t) = {})

\* The scan one minute after the trigger has run to its end; the one email
\* of the scan at the trigger is the only one, and its row the only row.
C9_Witness ==
    \E p \in ScenarioPairs, x \in Triggers :
        LET t == <<p[1].id, p[2].id, "email">> IN
        /\ scans[x].pc = "done"
        /\ scans[x].now = TriggerAt(p[1], p[2]) + MinuteMs
        /\ t \notin failedTriples
        /\ delivered[t] = 1
        /\ Cardinality(RowsFor(t)) = 1

----------------------------------------------------------------------------
(* Properties of the reconciliation engine *)

\* A step in which run t executes its transaction (commit or rollback).
BatchStep(t) ==
    /\ syncs[t].pc = "fetch"
    /\ syncs'[t].pc = "done"
    /\ syncs'[t].error # "fetch"

\* C10: a run whose upstream data is the data the run before it executed
\* leaves the anime and episodes rows, ids and field values as they were;
\* only sync_state may differ.
C10_SyncIdempotent ==
    [][\A t \in Triggers :
          (BatchStep(t) /\ batchRuns >= 1)
              => (anime' = anime /\ episodes' = episodes)]_vars

\* A second run of the same upstream data has committed, with synced rows
\* in the catalog.
C10_Witness ==
    \E t \in Triggers :
        /\ syncs[t].pc = "done"
        /\ syncs[t].error = ""
        /\ batchRuns = 2
        /\ sync_state.anilist_last_result # <<>>
        /\ sync_state.anilist_last_result[1].fetchedRows = 2
        /\ \E e \in episodes : e.source = "anilist"

\* The rows run t hands to its transaction when the page request it awaits
\* is answered and ends the page loop.
FetchedRows(t) == syncs[t].rows \o PageRows(Served(upstream), syncs[t].page)

\* A step in which run t ends with an error: a page request failed, or a
\* statement of the batch threw.
FailedRunStep(t) ==
    /\ syncs[t].pc = "fetch"
    /\ syncs'[t].pc = "done"
    /\ syncs'[t].error # ""

\* A step in which run t commits its batch.
CommitStep(t) ==
    /\ syncs[t].pc = "fetch"
    /\ syncs'[t].pc = "done"
    /\ syncs'[t].error = ""

\* C11: a run that fails (a page request failing on any page, a statement
\* throwing in the middle of the batch) leaves anime and episodes as they
\* were; the tables change only in the step of a run that commits, and then
\* they hold every upsert of that run's batch.
C11_FailedRunLeavesCatalog ==
    [][/\ \A t \in Triggers :
             FailedRunStep(t) => (anime' = anime /\ episodes' = episodes)
       /\ (anime' # anime \/ episodes' # episodes)
             => \E t \in Triggers :
                   /\ CommitStep(t)
                   /\ anime' = RunTransactionNoRollback(FetchedRows(t)).anime
                   /\ episodes' = RunTransactionNoRollback(FetchedRows(t)).episodes]_vars

\* One run has failed in its batch, after the batch's first item had been
\* upserted, and another has failed on its second page request; the catalog
\* holds no synced row.
C11_Witness ==
    \E t \in Triggers, u \in Triggers :
        /\ syncs[t].pc = "done" /\ syncs[t].error = "constraint"
        /\ syncs[u].pc = "done" /\ syncs[u].error = "fetch" /\ syncs[u].page = 2
        /\ Cardinality(upstream) = 2
        /\ \A a \in anime : a.source = "local"
        /\ \A e \in episodes : e.source = "local"

\* C12: the step in which a run fails writes only anilist_last_error: the
\* anilist_last_sync and anilist_last_result values are the ones before the
\* step, and getAniListSyncStatus returns them together with the new error.
C12_FailureKeepsLastSuccess ==
    [][\A t \in Triggers :
          FailedRunStep(t)
              => /\ sync_state'.anilist_last_sync = sync_state.anilist_last_sync
                 /\ sync_state'.anilist_last_result = sync_state.anilist_last_result
                 /\ GetAniListSyncStatus(sync_state').lastSyncAt
                       = GetAniListSyncStatus(sync_state).lastSyncAt
                 /\ GetAniListSyncStatus(sync_state').lastResult
                       = GetAniListSyncStatus(sync_state).lastResult
                 /\ GetAniListSyncStatus(sync_state').lastError # <<>>
                 /\ GetAniListSyncStatus(sync_state').lastError
                       = sync_state'.anilist_last_error]_vars

\* A run has failed after an earlier run had succeeded: the status shows
\* the earlier run's timestamp and summary, and the error.
C12_Witness ==
    \E t \in Triggers :
        /\ syncs[t].pc = "done" /\ syncs[t].error # ""
        /\ GetAniListSyncStatus(sync_state).lastSyncAt # <<>>
        /\ GetAniListSyncStatus(sync_state).lastResult # <<>>
        /\ GetAniListSyncStatus(sync_state).lastResult[1].syncedEpisodes >= 1
        /\ GetAniListSyncStatus(sync_state).lastError # <<>>

\* The episode rows that hold the external id of upstream item x.
RowsOfEvent(rows, x) ==
    { e \in rows : e.source = "anilist" /\ e.external_id = IdText(x.id) }

\* C13: when a run's fetched rows hold an event whose episode row is linked
\* to another anime than the item's media, then after the run's batch the
\* same row (same id) is linked to the local row of the item's media, and
\* no second row holds the external id.
C13_RekeyedOnNextSync ==
    [][\A t \in Triggers :
          BatchStep(t)
              => \A n \in 1..Len(FetchedRows(t)) :
                    LET x == FetchedRows(t)[n]
                    IN \A e \in RowsOfEvent(episodes, x) :
                          e.anime_id # FindAnime(anime, IdText(x.media.id))
                              => /\ \E f \in RowsOfEvent(episodes', x) :
                                       /\ f.id = e.id
                                       /\ f.anime_id = FindAnime(anime', IdText(x.media.id))
                                 /\ Cardinality(RowsOfEvent(episodes', x)) = 1]_vars

LocalRows(rows) == { r \in rows : r.source = "local" }

\* C14: no run inserts, updates or deletes an anime or episode row of
\* source 'local': in every step the local rows, ids and field values, are
\* the ones before the step, whether a run commits or fails.
C14_LocalRowsUntouched ==
    [][/\ LocalRows(anime') = LocalRows(anime)
       /\ LocalRows(episodes') = LocalRows(episodes)]_vars

\* Runs have committed and a run has failed, next to the seeded local rows.
C14_Witness ==
    /\ LocalRows(anime) # {} /\ LocalRows(episodes) # {}
    /\ anime # LocalRows(anime) /\ episodes # LocalRows(episodes)
    /\ sync_state.anilist_last_sync # <<>>
    /\ \E t \in Triggers : syncs[t].pc = "done" /\ syncs[t].error = "constraint"

\* C15: in every reachable catalog no two anime rows and no two episode
\* rows share (source, external_id) with a non-null external id, no two
\* episode rows share (anime_id, episode_number), and every row of source
\* 'local' has a null external id.
C15_CatalogKeysUnique ==
    /\ \A a \in anime, b \in anime :
          (a.external_id # NullText /\ a.source = b.source
             /\ a.external_id = b.external_id) => a = b
    /\ \A e \in episodes, f \in episodes :
          (e.external_id # NullText /\ e.source = f.source
             /\ e.external_id = f.external_id) => e = f
    /\ \A e \in episodes, f \in episodes :
          (e.anime_id = f.anime_id /\ e.episode_number = f.episode_number) => e = f
    /\ \A r \in LocalRows(anime) \cup LocalRows(episodes) : r.external_id = NullText

\* Two synced anime with an episode each are in the catalog, and a run
\* whose batch brings a second event for an (anime, episode number) that is
\* taken has failed.
C15_Witness ==
    /\ Cardinality(anime \ LocalRows(anime)) = 2
    /\ Cardinality(episodes \ LocalRows(episodes)) = 2
    /\ \E t \in Triggers : syncs[t].pc = "done" /\ syncs[t].error = "constraint"
    /\ \E x \in upstream, y \in upstream :
          x.id # y.id /\ x.media.id = y.media.id /\ x.episode = y.episode

SyncedRows(rows) == { r \in rows : r.source = "anilist" }

\* C16: the local id of a synced anime or episode never changes: after
\* every step each synced row is still there under the same id with the
\* same (source, external_id), whatever the run did to its other fields.
C16_SyncedIdsStable ==
    [][/\ \A a \in SyncedRows(anime) :
             \E b \in anime' : /\ b.id = a.id
                               /\ b.source = a.source
                               /\ b.external_id = a.external_id
       /\ \A e \in SyncedRows(episodes) :
             \E f \in episodes' : /\ f.id = e.id
                                  /\ f.source = e.source
                                  /\ f.external_id = e.external_id]_vars

\* A run has committed the upstream data a run before it had executed, on
\* a catalog of two synced anime and two synced episodes.
C16_Witness ==
    /\ batchRuns = 2
    /\ \E t \in Triggers : syncs[t].pc = "done" /\ syncs[t].error = ""
    /\ Cardinality(SyncedRows(anime)) = 2
    /\ Cardinality(SyncedRows(episodes)) = 2
    /\ Cardinality(upstream) = 2

----------------------------------------------------------------------------
(* Runs over upstream data that holds a malformed item *)

\* Schedule node 9002 as the upstream can send it malformed: without
\* media, with media that is not anime, without episode number, without
\* airing time, with media whose title object is null.
MalformedItems ==
    { [Item(9002, 101, 1) EXCEPT !.media = NullObject],
      [Item(9002, 101, 1) EXCEPT !.media.type = "MANGA"],
      [Item(9002, 101, 1) EXCEPT !.episode = NullId],
      [Item(9002, 101, 1) EXCEPT !.airingAt = NullId],
      [Item(9002, 101, 1) EXCEPT !.media.title = NullObject] }

\* Well-formed nodes served before and after node 9002.
WellFormedItems == { Item(9001, 101, 1), Item(9003, 102, 2) }

IntakeSets ==
    { W \cup M : W \in SUBSET WellFormedItems,
                 M \in {{}} \cup { {m} : m \in MalformedItems } }

IntakeInit ==
    /\ now = 0
    /\ users = InitUsers
    /\ NoAuthTraffic
    /\ anime = InitAnime
    /\ episodes = { Episode(1, 1, 1, Lead(MaxLeadMinutes)) }
    /\ reminders = { Reminder(1, NullId, "r@example.com", NullText, MinLeadMinutes) }
    /\ notification_log = {}
    /\ scans = [t \in Triggers |-> IdleScan]
    /\ cronFiredAt = -1
    /\ delivered = [t \in Triples |-> 0]
    /\ failedTriples = {}
    /\ dueCount = [p \in Pairs |-> 0]
    /\ upstream \in IntakeSets
    /\ syncs = [t \in Triggers |-> IdleSync]
    /\ sync_state = EmptySyncState
    /\ batchRuns = 0

IntakeNext ==
    \/ \E t \in Triggers : SyncStarts(t)
    \/ \E t \in Triggers : FetchResolves(t)
    \/ \E t \in Triggers : FetchRejects(t)
    \/ \E t \in Triggers : SyncReturns(t)

IntakeSpec == IntakeInit /\ [][IntakeNext]_vars

\* The items of a fetch that have media of type anime, an episode number,
\* an airing time and a title object.
IsWellFormed(item) ==
    /\ item.media # NullObject
    /\ item.media.type = "ANIME"
    /\ item.episode # NullId
    /\ item.airingAt # NullId
    /\ item.media.title # NullObject

\* C17: a run whose fetch holds a malformed item succeeds, and its batch
\* leaves the catalog that the well-formed items of the fetch alone give.
C17_MalformedItemSkipped ==
    [][\A t \in Triggers :
          BatchStep(t)
              => LET rows == FetchedRows(t)
                     wellFormed == SelectSeq(rows, IsWellFormed)
                 IN /\ syncs'[t].error = ""
                    /\ anime' = RunTransaction(wellFormed).anime
                    /\ episodes' = RunTransaction(wellFormed).episodes]_vars

----------------------------------------------------------------------------
(* The ledger *)

\* C18: a notification_log row of a triple exists only when a delivery
\* call for exactly that triple has returned success, and no step updates
\* or deletes a row: every row before a step is a row after it.
C18_LedgerOnlyAfterSuccess ==
    [][/\ notification_log \subseteq notification_log'
       /\ \A row \in notification_log' :
             delivered'[<<row.reminder_id, row.episode_id, row.channel>>] >= 1]_vars

\* Rows of two channels are in the ledger while a delivery of another
\* triple has failed and a second scan is running.
C18_Witness ==
    /\ \E r1 \in notification_log, r2 \in notification_log :
          r1.channel = "email" /\ r2.channel = "discord"
    /\ \E t \in failedTriples : RowsFor(t) = {}
    /\ \E t \in Triggers : scans[t].pc = "await"

----------------------------------------------------------------------------
(* startScheduler: the two cron jobs *)

\* How runAniListSyncSafe's promise settles: it resolves with the result,
\* or, after recording the error, rejects (throw error, emailService.js:253).
SafeOutcome(error) == IF error = "" THEN "resolved" ELSE "rejected"

OnJobRejectedUncaught(idle) == [idle EXCEPT !.pc = "crashed"]

\* .catch((error) => console.error(...)) on the promise of a job: the
\* rejection is logged and the job is free for its next tick.
OnJobRejected(idle) == idle

DriverInit ==
    /\ now = 0
    /\ users = InitUsers
    /\ NoAuthTraffic
    /\ anime = InitAnime
    /\ \E t1 \in ReleaseTimes :
          episodes = { Episode(1, 1, 1, t1),
                       Episode(2, 2, 1, Lead(MaxLeadMinutes) + StepMs) }
    /\ reminders = { Reminder(1, NullId, "r@example.com", "hook", MinLeadMinutes) }
    /\ notification_log = {}
    /\ scans = [t \in Triggers |-> IdleScan]
    /\ cronFiredAt = -1
    /\ delivered = [t \in Triples |-> 0]
    /\ failedTriples = {}
    /\ dueCount = [p \in Pairs |-> 0]
    /\ upstream \in { {}, {Item(9001, 101, 1)},
                      {Item(9001, 101, 1), Item(9002, 101, 1)} }
    /\ syncs = [t \in Triggers |-> IdleSync]
    /\ sync_state = EmptySyncState
    /\ batchRuns = 0

\* The minute's tick fires and a statement of runReminderScan throws (the
\* database is busy or closed): the promise rejects.   scheduler.js:94-98
CronTickRejects ==
    /\ TickDue
    /\ scans' = [scans EXCEPT !["cron"] = OnJobRejected(IdleScan)]
    /\ cronFiredAt' = now
    /\ UNCHANGED <<now, authVars, anime, episodes, reminders, notification_log,
                   delivered, failedTriples, dueCount, syncVars>>

\* The promise of the sync job's runAniListSyncSafe() settles.
\* scheduler.js:104-108
SyncJobSettles ==
    /\ syncs["cron"].pc = "done"
    /\ syncs' = [syncs EXCEPT !["cron"] =
                   IF SafeOutcome(syncs["cron"].error) = "rejected"
                   THEN OnJobRejected(IdleSync)
                   ELSE IdleSync]
    /\ UNCHANGED <<dispatchVars, anime, episodes, upstream, sync_state, batchRuns>>

DriverNext ==
    \/ CronTick
    \/ CronTickRejects
    \/ \E ok \in BOOLEAN : DeliverySettles("cron", ok)
    \/ ScanReturns("cron")
    \/ ClockAdvances
    \/ SyncStarts("cron")
    \/ FetchResolves("cron")
    \/ FetchRejects("cron")
    \/ SyncJobSettles

\* node-cron fires every tick of a job and time passes; a request that is
\* awaited (a delivery, an upstream page) settles.  The rejection of a tick
\* or of a page request is enabled exactly while the tick is due or the
\* request is awaited, so weak fairness on it says that no tick is left
\* unfired and no request is awaited forever.
DriverSpec ==
    /\ DriverInit
    /\ [][DriverNext]_vars
    /\ WF_vars(CronTickRejects)
    /\ WF_vars(ClockAdvances)
    /\ WF_vars(\E ok \in BOOLEAN : DeliverySettles("cron", ok))
    /\ WF_vars(ScanReturns("cron"))
    /\ WF_vars(SyncStarts("cron"))
    /\ WF_vars(FetchRejects("cron"))
    /\ WF_vars(SyncJobSettles)

\* The cron instants that have a next instant within the clock's range
TicksWithSuccessor ==
    { k * MinuteMs : k \in 0..((MaxNow \div MinuteMs) - 1) }

SyncJobFailed == syncs["cron"].pc = "done" /\ syncs["cron"].error # ""

C20_FailureNotRaised ==
    \A t \in Triggers :
        syncs[t].pc = "done" => SafeOutcome(syncs[t].error) = "resolved"

----------------------------------------------------------------------------
(* Overlapping runs, hung requests *)

\* The episode row that item x of a committed batch leaves in the tables.
ItemApplied(animeRows, episodeRows, x) ==
    \E e \in RowsOfEvent(episodeRows, x) :
        /\ e.anime_id = FindAnime(animeRows, IdText(x.media.id))
        /\ e.anime_id # NullId
        /\ e.episode_number = x.episode
        /\ e.release_at = x.airingAt * 1000

\* C21: the batches of overlapping runs do not interleave: the catalog
\* changes only in the step in which one run commits; that step applies
\* every item the run fetched and leaves the other run where it was, so
\* no state between two steps holds part of a batch.
C21_BatchesDoNotInterleave ==
    [][/\ \A t \in Triggers :
             CommitStep(t)
                => /\ \A n \in 1..Len(FetchedRows(t)) :
                         ItemApplied(anime', episodes', FetchedRows(t)[n])
                   /\ \A u \in Triggers \ {t} : syncs'[u] = syncs[u]
       /\ (anime' # anime \/ episodes' # episodes)
             => Cardinality({ t \in Triggers : CommitStep(t) }) = 1]_vars

\* A run has committed a batch of two items while the other run, started
\* before that commit, is still waiting for a page.
C21_Witness ==
    \E t \in Triggers, u \in Triggers :
        /\ syncs[t].pc = "done" /\ syncs[t].error = ""
        /\ syncs[u].pc = "fetch" /\ syncs[u].page = 2
        /\ Cardinality(upstream) = 2
        /\ \A x \in upstream : ItemApplied(anime, episodes, x)

\* The driver when requests may never be answered: ticks fire, time passes
\* and a settled job returns, but nothing in the code ends an awaited
\* request (no timeout, no abort signal), so none is assumed to settle.
HangSpec ==
    /\ DriverInit
    /\ [][DriverNext]_vars
    /\ WF_vars(CronTickRejects)
    /\ WF_vars(ClockAdvances)
    /\ WF_vars(ScanReturns("cron"))
    /\ WF_vars(SyncStarts("cron"))
    /\ WF_vars(SyncJobSettles)

\* C22: every sync run and every scan eventually completes, also when a
\* page request or a delivery call is never answered.
C22_RunsComplete ==
    /\ [](syncs["cron"].pc = "fetch" => <>(syncs["cron"].pc = "done"))
    /\ [](scans["cron"].pc = "await" => <>(scans["cron"].pc = "idle"))

\* The driver when the upstream may never answer, while deliveries are
\* answered.
StalledSyncSpec ==
    /\ DriverInit
    /\ [][DriverNext]_vars
    /\ WF_vars(CronTickRejects)
    /\ WF_vars(ClockAdvances)
    /\ WF_vars(\E ok \in BOOLEAN : DeliverySettles("cron", ok))
    /\ WF_vars(ScanReturns("cron"))

----------------------------------------------------------------------------
(* server.js: request values, sessions, requireAuth *)

\* A value of a JSON request body: absent, a string or a number.
JsonAbsent == [type |-> "undefined", text |-> "", num |-> 0]

Str(text) == [type |-> "string", text |-> text, num |-> 0]

Num(n) == [type |-> "number", text |-> "", num |-> n]

\* JavaScript truthiness of a body value
JsTruthy(v) ==
    CASE v.type = "undefined" -> FALSE
      [] v.type = "string" -> v.text # ""
      [] v.type = "number" -> v.num # 0

\* The texts used in requests that Number() reads as a number
NumericTexts == { "30", "2000" }

NumericValue(text) == CASE text = "30" -> 30 [] text = "2000" -> 2000

\* Number(v): [nan, num]; NaN for an absent value and a text that is no number
ToNumber(v) ==
    CASE v.type = "number" -> [nan |-> FALSE, num |-> v.num]
      [] v.type = "string" /\ v.text \in NumericTexts
            -> [nan |-> FALSE, num |-> NumericValue(v.text)]
      [] v.type = "string" /\ v.text \in {"", " "} -> [nan |-> FALSE, num |-> 0]
      [] OTHER -> [nan |-> TRUE, num |-> 0]

\* String(v).trim() of the texts used in requests
TrimText(text) ==
    CASE text = " " -> ""
      [] text = " r@example.com " -> "r@example.com"
      [] text = " hook " -> "hook"
      [] OTHER -> text

\* auth.sessionDays, config.js:32: AUTH_SESSION_DAYS of the deployment, 1..180 (30 when the
\* variable is not set); one day here, so that a session's expiry is an
\* instant the clock of the model reaches.
SessionDays == 1

DayMs == 24 * 60 * 60 * 1000

\* deleteExpiredSessionsStmt.run(now)
DeleteExpiredSessions(sessions, at) == { s \in sessions : ~ (s.expires_at <= at) }

\* getBearerToken(req): the header is [scheme, token] as split(' ') gives
\* them; NullId when the header is absent, has no token or another scheme.
LowerCase(text) ==
    CASE text \in {"Bearer", "BEARER"} -> "bearer"
      [] text = "Basic" -> "basic"
      [] OTHER -> text

GetBearerToken(header) ==
    IF header.scheme = "" \/ LowerCase(header.scheme) # "bearer"
       \/ header.token = NullId
    THEN NullId
    ELSE header.token

NoUser == [id |-> NullId, token |-> NullId]

GetCurrentUserTrustsToken(header, sessions, at) ==
    [user |-> [id |-> 1, token |-> header.token], sessions |-> sessions]

\* getCurrentUserFromRequest(req), server.js:443-461: the user of the
\* bearer token's session, and the sessions table the call leaves.
GetCurrentUserFromRequest(header, sessions, at) ==
    LET swept == DeleteExpiredSessions(sessions, at)
        token == GetBearerToken(header)
        found == { s \in swept : s.token = token /\ \E u \in users : u.id = s.user_id }
    IN IF token = NullId \/ found = {}
       THEN [user |-> NoUser, sessions |-> swept]
       ELSE LET row == CHOOSE s \in found : TRUE
            IN IF row.expires_at <= at
               THEN [user |-> NoUser, sessions |-> { s \in swept : s.token # token }]
               ELSE [user |-> [id |-> row.user_id, token |-> token],
                     sessions |-> swept]

Unauthorized(route) == [NoResponse EXCEPT !.route = route, !.status = 401]

----------------------------------------------------------------------------
(* server.js: POST /api/reminders *)

MinutesBeforeUnclamped(body) ==
    LET n == ToNumber(body.minutesBefore)
    IN IF n.nan \/ n.num = 0 THEN 60 ELSE n.num

\* Math.max(5, Math.min(1440, Number(req.body.minutesBefore) || 60))
MinutesBefore(body) ==
    LET n == ToNumber(body.minutesBefore)
        given == IF n.nan \/ n.num = 0 THEN 60 ELSE n.num
        capped == IF given < MaxLeadMinutes THEN given ELSE MaxLeadMinutes
    IN IF capped > MinLeadMinutes THEN capped ELSE MinLeadMinutes

\* String(v).trim() of a field that is given, null otherwise
TextField(v) ==
    IF JsTruthy(v)
    THEN (IF v.type = "string" THEN TrimText(v.text) ELSE "1")
    ELSE NullText

HasChannelAlways(email, hook) == TRUE

\* !(!email && !discordWebhookUrl)
HasChannel(email, hook) == Truthy(email) \/ Truthy(hook)

\* The handler after requireAuth, server.js:741-752: the response and the
\* reminders table it leaves.
CreateReminder(rows, userId, body) ==
    LET animeId == IF JsTruthy(body.animeId) THEN ToNumber(body.animeId).num
                   ELSE NullId
        email == TextField(body.email)
        discordWebhookUrl == TextField(body.discordWebhookUrl)
        minutesBefore == MinutesBefore(body)
        row == [id |-> NextRowId(rows), user_id |-> userId, anime_id |-> animeId,
                email |-> email, discord_webhook_url |-> discordWebhookUrl,
                minutes_before |-> minutesBefore, is_active |-> 1]
    IN IF ~ HasChannel(email, discordWebhookUrl)
       THEN [status |-> 400, rows |-> rows, created |-> {}]
       ELSE [status |-> 201, rows |-> rows \cup {row}, created |-> {row}]

\* The request bodies and headers of the model's clients
BaseBody ==
    [animeId |-> JsonAbsent, email |-> Str(" r@example.com "),
     discordWebhookUrl |-> JsonAbsent, minutesBefore |-> JsonAbsent]

LeadTimes ==
    {JsonAbsent, Str("abc"), Str("30"), Num(0), Num(0 - 5), Num(3), Num(5), Num(2000)}

ReminderBodies ==
    { [BaseBody EXCEPT !.email = e, !.discordWebhookUrl = h] :
          e \in {JsonAbsent, Str(" "), Str(" r@example.com ")},
          h \in {JsonAbsent, Str("hook")} }
    \cup { [BaseBody EXCEPT !.minutesBefore = m] : m \in LeadTimes }
    \cup { [BaseBody EXCEPT !.animeId = Num(1), !.discordWebhookUrl = Str("hook")] }

Headers ==
    { [scheme |-> "", token |-> NullId], [scheme |-> "Bearer", token |-> 1],
      [scheme |-> "bearer", token |-> 2], [scheme |-> "Basic", token |-> 1] }

\* The rows the model lets the reminders table hold
MaxReminders == 1

PostReminders(header, body) ==
    LET auth == GetCurrentUserFromRequest(header, user_sessions, now)
        made == CreateReminder(reminders, auth.user.id, body)
    IN /\ user_sessions' = auth.sessions
       /\ IF auth.user = NoUser
          THEN /\ response' = Unauthorized("POST /api/reminders")
               /\ UNCHANGED reminders
          ELSE /\ Cardinality(made.rows) <= MaxReminders
               /\ reminders' = made.rows
               /\ response' = [NoResponse EXCEPT !.route = "POST /api/reminders",
                                                 !.status = made.status,
                                                 !.rows = made.created]
       /\ UNCHANGED <<now, users, email_verification_tokens, password_reset_tokens, oauth_state_tokens,
                      issued, anime, episodes, notification_log, scans, cronFiredAt,
                      delivered, failedTriples, dueCount, syncVars>>

\* A signed-in owner and an empty reminders table.
ApiInit ==
    /\ now = 0
    /\ users = InitUsers
    /\ user_sessions = { [token |-> 1, user_id |-> 1, expires_at |-> SessionDays * DayMs] }
    /\ email_verification_tokens = {}
    /\ password_reset_tokens = {}
    /\ oauth_state_tokens = {}
    /\ issued = 1
    /\ response = NoResponse
    /\ anime = InitAnime
    /\ \E t1 \in ReleaseTimes :
          episodes = { Episode(1, 1, 1, t1),
                       Episode(2, 2, 1, Lead(MaxLeadMinutes) + StepMs) }
    /\ reminders = {}
    /\ notification_log = {}
    /\ scans = [t \in Triggers |-> IdleScan]
    /\ cronFiredAt = -1
    /\ delivered = [t \in Triples |-> 0]
    /\ failedTriples = {}
    /\ dueCount = [p \in Pairs |-> 0]
    /\ upstream = {}
    /\ syncs = [t \in Triggers |-> IdleSync]
    /\ sync_state = EmptySyncState
    /\ batchRuns = 0

ApiNext ==
    \/ \E header \in Headers, body \in ReminderBodies : PostReminders(header, body)
    \/ CronTick
    \/ \E ok \in BOOLEAN : DeliverySettles("cron", ok)
    \/ ScanReturns("cron")
    \/ ClockAdvances

ApiSpec == ApiInit /\ [][ApiNext]_vars


----------------------------------------------------------------------------
(* Reminder creation: targets and lead time *)

\* A body field names a delivery target when it is a string that is not blank.
NamesTarget(v) == v # JsonAbsent /\ v.type = "string" /\ v.text \notin {"", " "}

TargetlessBodies ==
    { body \in ReminderBodies :
        ~ NamesTarget(body.email) /\ ~ NamesTarget(body.discordWebhookUrl) }

\* A step that is not one of a request handler leaves these alone.
ApiStep == authVars' # authVars \/ reminders' # reminders

\* C24: a POST /api/reminders whose body names neither an email nor a webhook
\* is answered with an error and leaves the reminders table as it was, and
\* every reminder row has a non-empty email or a non-empty webhook.
C24_NoTargetRejected ==
    [][ /\ ApiStep =>
              \A body \in TargetlessBodies, header \in Headers :
                  PostReminders(header, body)
                  => (response'.status >= 400 /\ reminders' = reminders)
        /\ \A r \in reminders' :
              Truthy(r.email) \/ Truthy(r.discord_webhook_url) ]_vars

\* A request without a target was answered 400 by a signed-in owner who
\* already holds a reminder with a webhook and a blank email.
C24_Witness ==
    /\ response.route = "POST /api/reminders"
    /\ response.status = 400
    /\ \E r \in reminders : r.email = "" /\ r.discord_webhook_url = "hook"

\* A lead time that is given and is not a number of 5..1440
InvalidLeadTime(v) ==
    /\ v # JsonAbsent
    /\ \/ ToNumber(v).nan
       \/ ToNumber(v).num < MinLeadMinutes
       \/ ToNumber(v).num > MaxLeadMinutes

InvalidLeadBodies ==
    { body \in ReminderBodies : InvalidLeadTime(body.minutesBefore) }

\* C25: a POST /api/reminders whose lead time is not numeric or is outside
\* 5..1440 is answered with an error and creates no reminder row.
C25_InvalidLeadTimeRejected ==
    [][ ApiStep =>
          \A body \in InvalidLeadBodies, header \in Headers :
              PostReminders(header, body)
              => (response'.status >= 400 /\ reminders' = reminders) ]_vars

\* C26: every reminder row has minutes_before in 5..1440 whatever the body
\* held, and no step changes the minutes_before of a row that exists.
C26_LeadTimeBounded ==
    [][ /\ \A r \in reminders' :
              r.minutes_before \in MinLeadMinutes..MaxLeadMinutes
        /\ \A r \in reminders, r2 \in reminders' :
              r2.id = r.id => r2.minutes_before = r.minutes_before ]_vars

\* An oversized lead time was stored as 1440, a scan has delivered for that
\* reminder and a later request was answered.
C26_Witness ==
    /\ \E r \in reminders :
          /\ r.minutes_before = MaxLeadMinutes
          /\ \E l \in notification_log : l.reminder_id = r.id
    /\ response.route = "POST /api/reminders"
    /\ response.status = 400


----------------------------------------------------------------------------
(* server.js: accounts, email verification, password reset, sessions *)

\* Each action below is one request that express-rate-limit (server.js:27-44)
\* admits, handled from the first statement of its handler to its response.
\* The handlers write the tables before their first await (the email send of
\* issueEmailVerification and issuePasswordReset), so a request is one step.

tableVars == <<anime, episodes, reminders, notification_log, scans, cronFiredAt,
               delivered, failedTriples, dueCount, syncVars>>

HourMs == 60 * MinuteMs

\* used_at of a token row that has not been consumed (SQL NULL)
NotUsed == -1

\* The tokens createSessionToken() produces in a run of the model: the n-th
\* call returns n, a value no earlier call returned.
MaxIssued == 4

Tokens == 1..MaxIssued

\* normalizeEmail(email): String(email || '').trim().toLowerCase()
NormalizeEmail(email) ==
    CASE email = " New@Example.com " -> "new@example.com"
      [] OTHER -> email

HasAt(email) == email \in {"owner@example.com", "new@example.com"}

\* verifyPassword(password, encoded), authService.js:9-20
VerifyPassword(password, encoded) == Scrypt(password, encoded[1]) = encoded[2]

\* findUserByEmailStmt.get(email): the set of matching rows (at most one)
FindUserByEmail(rows, email) == { u \in rows : u.email = email }

\* token rows that deleteExpired...TokensStmt.run(now) leaves
DeleteExpiredTokens(tokens, at) ==
    { r \in tokens : ~ (r.expires_at <= at \/ r.used_at # NotUsed) }

\* issueEmailVerification / issuePasswordReset: the table after the expired
\* and used rows and the user's rows are deleted and the new row inserted.
IssueToken(tokens, userId, token, at, hours) ==
    { r \in DeleteExpiredTokens(tokens, at) : r.user_id # userId }
    \cup { [token |-> token, user_id |-> userId,
            expires_at |-> at + hours * HourMs, used_at |-> NotUsed] }

FindToken(tokens, token) == { r \in tokens : r.token = token }

TokenUsableWhenUsed(row, at) == ~ (row.expires_at <= at)

\* !(row.usedAt || new Date(row.expiresAt).getTime() <= Date.now())
TokenUsable(row, at) == row.used_at = NotUsed /\ ~ (row.expires_at <= at)

ConsumeToken(tokens, token, at) ==
    { IF r.token = token THEN [r EXCEPT !.used_at = at] ELSE r : r \in tokens }

\* createSessionForUser(userId)
CreateSession(sessions, userId, token, at) ==
    sessions \cup { [token |-> token, user_id |-> userId,
                     expires_at |-> at + SessionDays * DayMs] }

DeleteSessionsByUserNone(sessions, userId) == sessions

\* deleteSessionsByUserStmt.run(userId)
DeleteSessionsByUser(sessions, userId) == { s \in sessions : s.user_id # userId }

\* deleteSessionStmt.run(token)
DeleteSession(sessions, token) == { s \in sessions : s.token # token }

LoginStatusUnverified(found, password) ==
    IF found = {} THEN 401
    ELSE IF ~ VerifyPassword(password, (CHOOSE u \in found : TRUE).password_hash)
         THEN 401 ELSE 200

\* The status of POST /api/auth/login for the rows findUserByEmailStmt found
LoginStatus(found, password) ==
    IF found = {} THEN 401
    ELSE LET user == CHOOSE u \in found : TRUE
         IN IF ~ VerifyPassword(password, user.password_hash) THEN 401
            ELSE IF user.email_verified # 1 THEN 403
            ELSE 200

\* Request values of the model's clients
Emails == {"owner@example.com", " New@Example.com ", "bad"}

Passwords == {"password1", "password2", "short"}

DisplayNames == {"Al", "A"}

\* crypto.randomBytes(16) of hashPassword: the salts drawn in the model
Salts == {"s2"}

Answer(route, status, token) ==
    [NoResponse EXCEPT !.route = route, !.status = status, !.token = token]

\* res.status(status).json(body) of an account route
Json(route, status, body) ==
    [NoResponse EXCEPT !.route = route, !.status = status, !.body = body]

\* The two returns of resend-verification, server.js:633-635 and 643: found
\* is the row findUserByEmailStmt returned, sent tells whether
\* issueEmailVerification resolved or threw into the catch of 639-641.
ResendVerificationAnswer(found, sent) ==
    IF found = {} \/ (CHOOSE u \in found : TRUE).email_verified = 1
    THEN Json("POST /api/auth/resend-verification", 200, "{ok: true}")
    ELSE Json("POST /api/auth/resend-verification", 200, "{ok: true}")

ForgotPasswordAnswerTelling(found, sent) ==
    IF found = {} THEN Json("POST /api/auth/forgot-password", 404, "{error}")
    ELSE IF sent THEN Json("POST /api/auth/forgot-password", 200, "{ok: true}")
    ELSE Json("POST /api/auth/forgot-password", 500, "{error}")

\* The return of forgot-password, server.js:674, reached with no user, after
\* issuePasswordReset resolved, and after it threw into the catch of 669-671.
ForgotPasswordAnswer(found, sent) ==
    Json("POST /api/auth/forgot-password", 200,
         "{ok: true, message: 'If the account exists, a reset email was sent.'}")

\* POST /api/auth/register
Register(email, password, displayName, salt) ==
    LET mail == NormalizeEmail(email)
        id == NextRowId(users)
        status == IF ~ HasAt(mail) THEN 400
                  ELSE IF Len(password) < 8 THEN 400
                  ELSE IF Len(displayName) < 2 THEN 400
                  ELSE IF FindUserByEmail(users, mail) # {} THEN 409
                  ELSE 201
    IN /\ response' = Answer("POST /api/auth/register", status, NullId)
       /\ IF status = 201
          THEN /\ issued < MaxIssued
               /\ users' = users \cup
                     { [id |-> id, email |-> mail,
                        password_hash |-> HashPassword(password, salt),
                        email_verified |-> 0] }
               /\ email_verification_tokens' =
                     IssueToken(email_verification_tokens, id, issued + 1, now, 24)
               /\ issued' = issued + 1
          ELSE UNCHANGED <<users, email_verification_tokens, issued>>
       /\ UNCHANGED <<now, user_sessions, password_reset_tokens, oauth_state_tokens, tableVars>>

\* POST /api/auth/login
Login(email, password) ==
    LET found == FindUserByEmail(users, NormalizeEmail(email))
        status == LoginStatus(found, password)
    IN /\ IF status = 200
          THEN /\ issued < MaxIssued
               /\ user_sessions' = CreateSession(user_sessions,
                                      (CHOOSE u \in found : TRUE).id, issued + 1, now)
               /\ issued' = issued + 1
               /\ response' = Answer("POST /api/auth/login", 200, issued + 1)
          ELSE /\ response' = Answer("POST /api/auth/login", status, NullId)
               /\ UNCHANGED <<user_sessions, issued>>
       /\ UNCHANGED <<now, users, email_verification_tokens, password_reset_tokens, oauth_state_tokens,
                      tableVars>>

\* POST /api/auth/resend-verification
ResendVerification(email) ==
    LET found == FindUserByEmail(users, NormalizeEmail(email))
    IN /\ \E sent \in BOOLEAN : response' = ResendVerificationAnswer(found, sent)
       /\ IF found = {} \/ (CHOOSE u \in found : TRUE).email_verified = 1
          THEN UNCHANGED <<email_verification_tokens, issued>>
          ELSE /\ issued < MaxIssued
               /\ email_verification_tokens' =
                     IssueToken(email_verification_tokens,
                                (CHOOSE u \in found : TRUE).id, issued + 1, now, 24)
               /\ issued' = issued + 1
       /\ UNCHANGED <<now, users, user_sessions, password_reset_tokens, oauth_state_tokens, tableVars>>

\* POST /api/auth/verify-email; token NullId is a body without a token
VerifyEmail(token) ==
    LET found == FindToken(email_verification_tokens, token)
        ok == /\ token # NullId
              /\ found # {}
              /\ TokenUsable(CHOOSE r \in found : TRUE, now)
    IN /\ response' = Answer("POST /api/auth/verify-email",
                             IF ok THEN 200 ELSE 400, token)
       /\ IF ok
          THEN /\ email_verification_tokens' =
                     ConsumeToken(email_verification_tokens, token, now)
               /\ users' = { IF u.id = (CHOOSE r \in found : TRUE).user_id
                             THEN [u EXCEPT !.email_verified = 1] ELSE u : u \in users }
          ELSE UNCHANGED <<users, email_verification_tokens>>
       /\ UNCHANGED <<now, user_sessions, password_reset_tokens, oauth_state_tokens, issued, tableVars>>

\* POST /api/auth/forgot-password
ForgotPassword(email) ==
    LET found == FindUserByEmail(users, NormalizeEmail(email))
    IN /\ \E sent \in BOOLEAN : response' = ForgotPasswordAnswer(found, sent)
       /\ IF found = {}
          THEN UNCHANGED <<password_reset_tokens, issued>>
          ELSE /\ issued < MaxIssued
               /\ password_reset_tokens' =
                     IssueToken(password_reset_tokens,
                                (CHOOSE u \in found : TRUE).id, issued + 1, now, 1)
               /\ issued' = issued + 1
       /\ UNCHANGED <<now, users, user_sessions, email_verification_tokens,
                      oauth_state_tokens, tableVars>>

\* POST /api/auth/reset-password
ResetPassword(token, newPassword, salt) ==
    LET found == FindToken(password_reset_tokens, token)
        ok == /\ token # NullId
              /\ ~ (Len(newPassword) < 8)
              /\ found # {}
              /\ TokenUsable(CHOOSE r \in found : TRUE, now)
        userId == (CHOOSE r \in found : TRUE).user_id
    IN /\ response' = Answer("POST /api/auth/reset-password",
                             IF ok THEN 200 ELSE 400, token)
       /\ IF ok
          THEN /\ users' = { IF u.id = userId
                             THEN [u EXCEPT !.password_hash =
                                                HashPassword(newPassword, salt)]
                             ELSE u : u \in users }
               /\ password_reset_tokens' =
                     ConsumeToken(password_reset_tokens, token, now)
               /\ user_sessions' = DeleteSessionsByUser(user_sessions, userId)
          ELSE UNCHANGED <<users, password_reset_tokens, user_sessions>>
       /\ UNCHANGED <<now, email_verification_tokens, oauth_state_tokens, issued,
                      tableVars>>

\* POST /api/auth/logout
Logout(header) ==
    LET auth == GetCurrentUserFromRequest(header, user_sessions, now)
    IN /\ IF auth.user = NoUser
          THEN /\ response' = Unauthorized("POST /api/auth/logout")
               /\ user_sessions' = auth.sessions
          ELSE /\ response' = Answer("POST /api/auth/logout", 204, NullId)
               /\ user_sessions' = DeleteSession(auth.sessions, auth.user.token)
       /\ UNCHANGED <<now, users, email_verification_tokens, password_reset_tokens, oauth_state_tokens,
                      issued, tableVars>>

\* listRemindersStmt.all(userId)
ListReminders(rows, userId) == { r \in rows : r.user_id = userId }

\* GET /api/reminders
GetReminders(header) ==
    LET auth == GetCurrentUserFromRequest(header, user_sessions, now)
    IN /\ user_sessions' = auth.sessions
       /\ response' =
             IF auth.user = NoUser THEN Unauthorized("GET /api/reminders")
             ELSE [NoResponse EXCEPT !.route = "GET /api/reminders", !.status = 200,
                                     !.token = auth.user.token,
                                     !.rows = ListReminders(reminders, auth.user.id)]
       /\ UNCHANGED <<now, users, email_verification_tokens, password_reset_tokens, oauth_state_tokens,
                      issued, tableVars>>

\* The days the clock of the account model covers
MaxDays == 1

Instants == {0, HourMs} \cup { d * DayMs : d \in 1..MaxDays }

\* Date.now() between two requests
TimePasses(at) ==
    /\ at \in Instants
    /\ at > now
    /\ now' = at
    /\ UNCHANGED <<authVars, tableVars>>

AuthHeaders ==
    { [scheme |-> "", token |-> NullId], [scheme |-> "bearer", token |-> 1],
      [scheme |-> "Basic", token |-> 1] }
    \cup { [scheme |-> "Bearer", token |-> t] : t \in Tokens }

\* The tables the account routes do not touch, as initDb leaves them.
QuietTables ==
    /\ anime = InitAnime
    /\ episodes = { Episode(1, 1, 1, Lead(MinLeadMinutes)) }
    /\ reminders = {}
    /\ notification_log = {}
    /\ scans = [t \in Triggers |-> IdleScan]
    /\ cronFiredAt = -1
    /\ delivered = [t \in Triples |-> 0]
    /\ failedTriples = {}
    /\ dueCount = [p \in Pairs |-> 0]
    /\ upstream = {}
    /\ syncs = [t \in Triggers |-> IdleSync]
    /\ sync_state = EmptySyncState
    /\ batchRuns = 0

\* Registration, verification and login: the verified owner of InitUsers,
\* nobody signed in.
RegistrationInit ==
    /\ now = 0
    /\ users = InitUsers
    /\ NoAuthTraffic
    /\ QuietTables

RegistrationNext ==
    \/ \E email \in Emails, password \in Passwords, displayName \in DisplayNames,
          salt \in Salts : Register(email, password, displayName, salt)
    \/ \E email \in Emails, password \in Passwords : Login(email, password)
    \/ \E email \in Emails : ResendVerification(email)
    \/ \E token \in Tokens \cup {NullId} : VerifyEmail(token)
    \/ \E at \in Instants : TimePasses(at)

RegistrationSpec == RegistrationInit /\ [][RegistrationNext]_vars

\* The guest has registered (token 1 is the verification token of that
\* request) and has not verified.
GuestUsers ==
    InitUsers \cup
    { [id |-> 2, email |-> "new@example.com",
       password_hash |-> HashPassword("password1", "s2"), email_verified |-> 0] }

\* Sessions and password reset: the owner and the guest, nobody signed in.
SessionInit ==
    /\ now = 0
    /\ users = GuestUsers
    /\ user_sessions = {}
    /\ email_verification_tokens = IssueToken({}, 2, 1, 0, 24)
    /\ password_reset_tokens = {}
    /\ oauth_state_tokens = {}
    /\ issued = 1
    /\ response = NoResponse
    /\ QuietTables

SessionNext ==
    \/ \E email \in Emails, password \in Passwords : Login(email, password)
    \/ \E email \in Emails : ForgotPassword(email)
    \/ \E token \in Tokens \cup {NullId}, password \in Passwords, salt \in Salts :
          ResetPassword(token, password, salt)
    \/ \E header \in AuthHeaders : Logout(header)
    \/ \E header \in AuthHeaders : GetReminders(header)
    \/ \E at \in Instants : TimePasses(at)

SessionSpec == SessionInit /\ [][SessionNext]_vars


----------------------------------------------------------------------------
(* Accounts: verification before login, single-use tokens, sessions *)

\* C27: a login with the email and password of a user whose email is not
\* verified is answered 403 and leaves user_sessions as it was; a session row
\* is only ever created for a verified user; and a user only becomes verified
\* by a verify-email request with an unused, unexpired token of that user.
C27_UnverifiedLoginRefused ==
    [][ /\ \A email \in Emails, password \in Passwords :
              ( /\ response'.route = "POST /api/auth/login"
                /\ Login(email, password)
                /\ \E u \in users : /\ u.email = NormalizeEmail(email)
                                    /\ VerifyPassword(password, u.password_hash)
                                    /\ u.email_verified = 0 )
              => (response'.status = 403 /\ user_sessions' = user_sessions)
        /\ \A s \in user_sessions' \ user_sessions :
              \E u \in users : u.id = s.user_id /\ u.email_verified = 1
        /\ \A u \in users, u2 \in users' :
              (u2.id = u.id /\ u.email_verified = 0 /\ u2.email_verified = 1)
              => \E r \in email_verification_tokens :
                    /\ r.user_id = u.id
                    /\ r.used_at = NotUsed
                    /\ r.expires_at > now
                    /\ VerifyEmail(r.token) ]_vars

\* The registered, unverified user has just been refused with the right
\* password, and nobody holds a session.
C27_Witness ==
    /\ response = Answer("POST /api/auth/login", 403, NullId)
    /\ \E u \in users : u.id = 2 /\ u.email_verified = 0
    /\ user_sessions = {}

\* An unused, unexpired row of the table holds the token.
UsableIn(tokens, at, token) ==
    \E r \in tokens : r.token = token /\ r.used_at = NotUsed /\ r.expires_at > at

\* C28: verify-email answers 200 exactly for a token of an unused, unexpired
\* row, which it marks used while it sets the owner's verified flag; any other
\* token is answered 400 and nothing changes; and a token that has been
\* issued and is not usable never becomes usable, so a token verifies once.
C28_VerifiesAtMostOnce ==
    [][ /\ \A t \in Tokens \cup {NullId} :
              (response'.token = t /\ VerifyEmail(t)) =>
                IF UsableIn(email_verification_tokens, now, t)
                THEN /\ response'.status = 200
                     /\ \A r \in FindToken(email_verification_tokens, t) :
                          /\ [r EXCEPT !.used_at = now] \in email_verification_tokens'
                          /\ \E u \in users' : u.id = r.user_id /\ u.email_verified = 1
                ELSE /\ response'.status = 400
                     /\ UNCHANGED <<users, user_sessions, email_verification_tokens,
                                    password_reset_tokens, issued>>
        /\ \A t \in 1..issued :
              ~ UsableIn(email_verification_tokens, now, t)
              => ~ UsableIn(email_verification_tokens', now', t) ]_vars

\* A second verify-email with a token that is used and not yet expired was
\* answered 400, and the token's owner is verified.
C28_Witness ==
    /\ response.route = "POST /api/auth/verify-email"
    /\ response.status = 400
    /\ \E r \in email_verification_tokens :
          /\ r.token = response.token
          /\ r.used_at # NotUsed
          /\ r.expires_at > now
          /\ \E u \in users : u.id = r.user_id /\ u.email_verified = 1

Bearer(token) == [scheme |-> "Bearer", token |-> token]

\* What a successful reset-password does besides the two logins of C29: the
\* sessions the user held no longer authenticate and the token is spent.
ResetRevokes(r) ==
    /\ \A s \in user_sessions :
          s.user_id = r.user_id
          => GetCurrentUserFromRequest(Bearer(s.token), user_sessions', now').user
                = NoUser
    /\ ~ UsableIn(password_reset_tokens', now', r.token)

\* Spent reset tokens stay spent and deleted sessions stay deleted.
NothingRevived ==
    \A t \in 1..issued :
        /\ ~ UsableIn(password_reset_tokens, now, t)
           => ~ UsableIn(password_reset_tokens', now', t)
        /\ FindToken(user_sessions, t) = {} => FindToken(user_sessions', t) = {}

UserRows(rows, id) == { u \in rows : u.id = id }

\* C29 as claimed: after a reset-password answered 200, login with a password
\* that was accepted before is answered 401 and login with the new password
\* 200; the user's earlier sessions no longer authenticate; the token cannot
\* be used again.
C29_ResetReplacesPassword ==
    [][ /\ \A t \in Tokens, p \in Passwords, salt \in Salts :
              (response'.token = t /\ response'.status = 200
                                    /\ ResetPassword(t, p, salt)) =>
                \A r \in FindToken(password_reset_tokens, t) :
                    /\ \A old \in Passwords :
                          LoginStatus(UserRows(users, r.user_id), old) # 401
                          => LoginStatus(UserRows(users', r.user_id), old) = 401
                    /\ LoginStatus(UserRows(users', r.user_id), p) = 200
                    /\ ResetRevokes(r)
        /\ NothingRevived ]_vars

\* C29 (amended): after a reset-password answered 200, login with the old
\* password is answered 401 unless the new password is the old one, and login
\* with the new password is answered 200 when the user's email is verified
\* and 403 otherwise; the user's earlier sessions no longer authenticate; the
\* token cannot be used again.
C29_ResetReplacesPasswordAmended ==
    [][ /\ \A t \in Tokens, p \in Passwords, salt \in Salts :
              (response'.token = t /\ response'.status = 200
                                    /\ ResetPassword(t, p, salt)) =>
                \A r \in FindToken(password_reset_tokens, t) :
                    /\ \A old \in Passwords \ {p} :
                          LoginStatus(UserRows(users, r.user_id), old) # 401
                          => LoginStatus(UserRows(users', r.user_id), old) = 401
                    /\ LoginStatus(UserRows(users', r.user_id), p) =
                          IF \E u \in users : u.id = r.user_id /\ u.email_verified = 1
                          THEN 200 ELSE 403
                    /\ ResetRevokes(r)
        /\ NothingRevived ]_vars

\* The owner has reset the password to another one and signed in with it:
\* the only session is the one of that login.
C29_Witness ==
    /\ response.route = "POST /api/auth/login"
    /\ response.status = 200
    /\ \E r \in password_reset_tokens : r.user_id = 1 /\ r.used_at # NotUsed
    /\ \E u \in users : u.id = 1 /\ VerifyPassword("password2", u.password_hash)
    /\ \A s \in user_sessions : s.token = response.token

\* The header carries the token of a session row that has not expired.
LiveBearer(header) ==
    /\ header.scheme \in {"Bearer", "bearer"}
    /\ \E s \in user_sessions : s.token = header.token /\ s.expires_at > now

\* Session rows come from a login answered 200 and go with a logout answered
\* 204; a token without a row never gets one again.
SessionsIssuedByLogin ==
    /\ \A s \in user_sessions' \ user_sessions :
          \E email \in Emails, password \in Passwords :
              response'.token = s.token /\ response'.status = 200
                                        /\ Login(email, password)
    /\ \A header \in AuthHeaders :
          (response'.status = 204 /\ Logout(header))
          => FindToken(user_sessions', header.token) = {}
    /\ \A t \in 1..issued :
          FindToken(user_sessions, t) = {} => FindToken(user_sessions', t) = {}

\* C30 as claimed: GET /api/reminders is answered 200 for the bearer token of
\* a session row that has not expired; any other request is answered 401 and
\* changes no table.
C30_OnlyLiveSessionsServed ==
    [][ /\ \A header \in AuthHeaders :
              (response'.route = "GET /api/reminders" /\ GetReminders(header)) =>
                IF LiveBearer(header)
                THEN response'.status = 200
                ELSE /\ response'.status = 401
                     /\ UNCHANGED <<users, user_sessions, email_verification_tokens,
                                    password_reset_tokens, reminders>>
        /\ SessionsIssuedByLogin ]_vars

\* C30 (amended): as C30, but a request answered 401 may delete the session
\* rows that have expired, and changes nothing else.
C30_OnlyLiveSessionsServedAmended ==
    [][ /\ \A header \in AuthHeaders :
              (response'.route = "GET /api/reminders" /\ GetReminders(header)) =>
                IF LiveBearer(header)
                THEN response'.status = 200
                ELSE /\ response'.status = 401
                     /\ user_sessions' = { s \in user_sessions : s.expires_at > now }
                     /\ UNCHANGED <<users, email_verification_tokens,
                                    password_reset_tokens, reminders>>
        /\ SessionsIssuedByLogin ]_vars

\* A request without a live session was answered 401 a day after a login:
\* the session of that login has expired and its row is gone.
C30_Witness ==
    /\ response = Unauthorized("GET /api/reminders")
    /\ now >= SessionDays * DayMs
    /\ issued > 1
    /\ user_sessions = {}
    /\ password_reset_tokens = {}
    /\ oauth_state_tokens = {}


----------------------------------------------------------------------------
(* Dispatch: channel resolution, selection of reminders *)

\* The account email of the owner of reminder id, from the tables.
OwnerEmail(id) ==
    (CHOOSE u \in users : \E q \in reminders : q.id = id /\ u.id = q.user_id).email

\* C31: a scan suspended in an email delivery is sending to the reminder's
\* own email if it has one and to the owner's account email otherwise; a
\* scan suspended in a discord delivery is sending to the reminder's webhook,
\* which is set, and the email channel of the same pair has been attempted
\* or recorded before it.
C31_ChannelResolution ==
    \A t \in Awaiting :
        LET s == scans[t]
            r == VisitReminder(s, s.pos)
            e == VisitEpisode(s, s.pos)
            c == VisitChannel(s, s.pos)
        IN /\ c = "email" =>
                Target(r, c) = (IF r.email \notin {NullText, ""} THEN r.email
                                ELSE OwnerEmail(r.id))
           /\ c = "discord" =>
                /\ r.discord_webhook_url \notin {NullText, ""}
                /\ Target(r, c) = r.discord_webhook_url
                /\ \/ delivered[<<r.id, e.id, "email">>] > 0
                   \/ <<r.id, e.id, "email">> \in failedTriples
                   \/ RowsFor(<<r.id, e.id, "email">>) # {}

\* A reminder with a webhook and no email of its own has an 'email' ledger
\* row, and a scan is suspended in its discord delivery.
C31_Witness ==
    \E t \in Awaiting, r \in reminders :
        /\ r.email = NullText
        /\ r.discord_webhook_url = "hook"
        /\ AwaitedTriple(t) = <<r.id, 1, "discord">>
        /\ RowsFor(<<r.id, 1, "email">>) # {}


\* Reminder rows as the database file can hold them: is_active is a column
\* of the schema (db.js:56) that no route writes, and user_id has no foreign
\* key, so an inactive row or a row without an owner comes from the file.
SelectionReminders ==
    { { [Reminder(1, a, "r@example.com", "hook", MinLeadMinutes)
            EXCEPT !.is_active = act],
        [Reminder(2, 1, "r2@example.com", NullText, MinLeadMinutes)
            EXCEPT !.user_id = o] } :
        a \in {NullId, 2}, act \in {0, 1}, o \in {1, 7} }

\* Both seeded shows release an episode at the same instant.
SelectionInit ==
    /\ now = 0
    /\ users = InitUsers
    /\ NoAuthTraffic
    /\ anime = InitAnime
    /\ \E t1 \in ReleaseTimes :
          episodes = { Episode(1, 1, 1, t1), Episode(2, 2, 1, t1) }
    /\ reminders \in SelectionReminders
    /\ notification_log = {}
    /\ scans = [t \in Triggers |-> IdleScan]
    /\ cronFiredAt = -1
    /\ delivered = [t \in Triples |-> 0]
    /\ failedTriples = {}
    /\ dueCount = [p \in Pairs |-> 0]
    /\ upstream = {}
    /\ syncs = [t \in Triggers |-> IdleSync]
    /\ sync_state = EmptySyncState
    /\ batchRuns = 0

\* The scans of the cron job.
SelectionNext ==
    \/ CronTick
    \/ \E ok \in BOOLEAN : DeliverySettles("cron", ok)
    \/ ScanReturns("cron")
    \/ ClockAdvances

SelectionSpec == SelectionInit /\ [][SelectionNext]_vars

\* The reminder is active, its owner exists and its filter admits the episode.
Eligible(rid, eid) ==
    \E r \in reminders, e \in episodes :
        /\ r.id = rid
        /\ e.id = eid
        /\ r.is_active = 1
        /\ \E u \in users : u.id = r.user_id
        /\ (r.anime_id = NullId \/ r.anime_id = e.anime_id)

\* C32: every delivery a scan is suspended in, every delivery that was
\* attempted and every ledger row is for a pair whose reminder is active, has
\* an owner row, and has a null filter or the episode's show as its filter.
C32_OnlyEligiblePairs ==
    /\ \A t \in Awaiting : Eligible(AwaitedTriple(t)[1], AwaitedTriple(t)[2])
    /\ \A tr \in Triples :
          (delivered[tr] > 0 \/ tr \in failedTriples) => Eligible(tr[1], tr[2])
    /\ \A l \in notification_log : Eligible(l.reminder_id, l.episode_id)

\* A scan that started when every pair was in its window has run to its end:
\* the inactive reminder has had no delivery, and the reminder filtered on
\* show 1 has had one for the episode of show 1 and none for that of show 2.
C32_Witness ==
    /\ scans["cron"].pc = "done"
    /\ scans["cron"].now = 0
    /\ \E r \in reminders :
          /\ r.is_active = 0
          /\ \A e \in episodes : PairIsDue(0, [r EXCEPT !.is_active = 1], e)
          /\ \A tr \in Triples : tr[1] = r.id => delivered[tr] = 0
    /\ \E tr \in Triples : tr[1] = 2 /\ tr[2] = 1 /\ delivered[tr] > 0
    /\ delivered[<<2, 2, "email">>] = 0


----------------------------------------------------------------------------
(* server.js: DELETE /api/reminders/:id, next to the scans *)

DeleteReminderById(rows, id, userId) == { r \in rows : r.id # id }

\* deleteReminderByUserStmt.run(id, userId)
DeleteReminderByUser(rows, id, userId) ==
    { r \in rows : ~ (r.id = id /\ r.user_id = userId) }

\* notification_log.reminder_id REFERENCES reminders(id) ON DELETE CASCADE
CascadeLog(log, rows) == { l \in log : \E r \in rows : r.id = l.reminder_id }

\* DELETE /api/reminders/:id
DeleteReminder(header, id) ==
    LET auth == GetCurrentUserFromRequest(header, user_sessions, now)
        kept == DeleteReminderByUser(reminders, id, auth.user.id)
    IN /\ user_sessions' = auth.sessions
       /\ IF auth.user = NoUser
          THEN /\ response' = Unauthorized("DELETE /api/reminders/:id")
               /\ UNCHANGED <<reminders, notification_log>>
          ELSE /\ reminders' = kept
               /\ notification_log' = CascadeLog(notification_log, kept)
               /\ response' = Answer("DELETE /api/reminders/:id",
                                     IF kept = reminders THEN 404 ELSE 204,
                                     auth.user.token)
       /\ UNCHANGED <<now, users, email_verification_tokens, password_reset_tokens, oauth_state_tokens,
                      issued, anime, episodes, scans, cronFiredAt, delivered,
                      failedTriples, dueCount, syncVars>>

\* Two verified users, each signed in and each with one reminder that is due
\* at the first tick.
OwnerUsers ==
    InitUsers \cup
    { [id |-> 2, email |-> "new@example.com",
       password_hash |-> HashPassword("password1", "s2"), email_verified |-> 1] }

OwnerReminders ==
    { Reminder(1, NullId, "r@example.com", "hook", MinLeadMinutes),
      [Reminder(2, 1, "g@example.com", NullText, MinLeadMinutes)
          EXCEPT !.user_id = 2] }

OwnerHeaders ==
    { [scheme |-> "", token |-> NullId], [scheme |-> "Bearer", token |-> 1],
      [scheme |-> "Bearer", token |-> 2] }

OwnerInit ==
    /\ now = 0
    /\ users = OwnerUsers
    /\ user_sessions = CreateSession(CreateSession({}, 1, 1, 0), 2, 2, 0)
    /\ email_verification_tokens = {}
    /\ password_reset_tokens = {}
    /\ oauth_state_tokens = {}
    /\ issued = 2
    /\ response = NoResponse
    /\ anime = InitAnime
    /\ episodes = { Episode(1, 1, 1, Lead(MinLeadMinutes)),
                    Episode(2, 2, 1, Lead(MaxLeadMinutes) + StepMs) }
    /\ reminders = OwnerReminders
    /\ notification_log = {}
    /\ scans = [t \in Triggers |-> IdleScan]
    /\ cronFiredAt = -1
    /\ delivered = [t \in Triples |-> 0]
    /\ failedTriples = {}
    /\ dueCount = [p \in Pairs |-> 0]
    /\ upstream = {}
    /\ syncs = [t \in Triggers |-> IdleSync]
    /\ sync_state = EmptySyncState
    /\ batchRuns = 0

OwnerNext ==
    \/ \E header \in OwnerHeaders : GetReminders(header)
    \/ \E header \in OwnerHeaders, id \in {1, 2} : DeleteReminder(header, id)
    \/ CronTick
    \/ \E ok \in BOOLEAN : DeliverySettles("cron", ok)
    \/ ScanReturns("cron")
    \/ ClockAdvances

OwnerSpec == OwnerInit /\ [][OwnerNext]_vars

\* The user whose session the header's token names
Callers(header) == { s.user_id : s \in FindToken(user_sessions, header.token) }

\* C33: a GET /api/reminders answered 200 returns exactly the reminders whose
\* user_id is the caller's; a DELETE /api/reminders/:id by a signed-in user
\* for a reminder of another user is answered 404 and leaves the reminders
\* table and the ledger as they were.
C33_OwnerIsolation ==
    [][ /\ (response'.route = "GET /api/reminders" /\ response'.status = 200) =>
              \A header \in OwnerHeaders :
                  GetReminders(header) =>
                      /\ Callers(header) # {}
                      /\ response'.rows =
                            { r \in reminders : r.user_id \in Callers(header) }
        /\ response'.route = "DELETE /api/reminders/:id" =>
              \A header \in OwnerHeaders, id \in {1, 2} :
                  ( /\ DeleteReminder(header, id)
                    /\ Callers(header) # {}
                    /\ \E r \in reminders : r.id = id /\ r.user_id \notin Callers(header) )
                  => /\ response'.status = 404
                     /\ reminders' = reminders
                     /\ notification_log' = notification_log ]_vars

\* The guest, who still holds reminder 2, asked to delete a reminder and was
\* answered 404: it was reminder 1, which is in the table with its ledger
\* rows.
C33_Witness ==
    /\ response = Answer("DELETE /api/reminders/:id", 404, 2)
    /\ reminders = OwnerReminders
    /\ \E l \in notification_log : l.reminder_id = 1

\* C36: a delivery call that a scan begins is for a reminder that is in the
\* reminders table: none begins for a reminder whose DELETE was answered 204.
C36_NoDeliveryAfterDelete ==
    [][ \A t \in Triggers :
            ( /\ scans'[t].pc = "await"
              /\ scans'[t] # scans[t] )
            => \E r \in reminders' :
                   r.id = VisitReminder(scans'[t], scans'[t].pos).id ]_vars


----------------------------------------------------------------------------
(* Sync runs that overlap while time passes *)

\* The manual and the cron run over an upstream of at most two schedule
\* nodes, with new Date() moving between their steps.
OverlapInit ==
    /\ now = 0
    /\ users = InitUsers
    /\ NoAuthTraffic
    /\ anime = InitAnime
    /\ episodes = { Episode(1, 1, 1, Lead(MaxLeadMinutes)) }
    /\ reminders = { Reminder(1, NullId, "r@example.com", NullText, MinLeadMinutes) }
    /\ notification_log = {}
    /\ scans = [t \in Triggers |-> IdleScan]
    /\ cronFiredAt = -1
    /\ delivered = [t \in Triples |-> 0]
    /\ failedTriples = {}
    /\ dueCount = [p \in Pairs |-> 0]
    /\ upstream \in { {Item(9001, 101, 1)},
                      {Item(9001, 101, 1), Item(9002, 101, 1)},
                      {Item(9001, 101, 1), Item(9002, 102, 1)} }
    /\ syncs = [t \in Triggers |-> IdleSync]
    /\ sync_state = EmptySyncState
    /\ batchRuns = 0

OverlapNext ==
    \/ \E t \in Triggers : SyncStarts(t)
    \/ \E t \in Triggers : FetchResolves(t)
    \/ \E t \in Triggers : FetchRejects(t)
    \/ \E t \in Triggers : SyncReturns(t)
    \/ \E at \in Instants : TimePasses(at)

OverlapSpec == OverlapInit /\ [][OverlapNext]_vars

\* What GET /api/sync/status answers: getAniListSyncStatus() on the table
SyncStatus(state) == GetAniListSyncStatus(state)

\* C34: after the step in which a run commits, the status shows the
\* timestamp that run took when it started, a summary with that timestamp
\* and the number of rows the run fetched, and no error, whatever error was
\* recorded before; after the step in which a run fails, the status shows a
\* non-empty failure message.
C34_StatusFollowsLastRun ==
    [][\A t \in Triggers :
          /\ (CommitStep(t) /\ syncs'[t].error = "") =>
                /\ SyncStatus(sync_state').lastSyncAt = <<syncs[t].startedAt>>
                /\ Len(SyncStatus(sync_state').lastResult) = 1
                /\ SyncStatus(sync_state').lastResult[1].syncedAt = syncs[t].startedAt
                /\ SyncStatus(sync_state').lastResult[1].fetchedRows
                      = Len(syncs[t].rows) + Len(PageRows(Served(upstream), syncs[t].page))
                /\ SyncStatus(sync_state').lastError = <<>>
          /\ FailedRunStep(t) =>
                /\ Len(SyncStatus(sync_state').lastError) = 1
                /\ SyncStatus(sync_state').lastError[1] # ""]_vars

\* A run that started after the clock had moved has committed while the
\* other run, which failed, has not returned yet: the status shows the
\* committed run's timestamp and no error.
C34_Witness ==
    \E t \in Triggers, u \in Triggers :
        /\ syncs[t].pc = "done" /\ syncs[t].error = "" /\ syncs[t].startedAt > 0
        /\ syncs[u].pc = "done" /\ syncs[u].error # ""
        /\ SyncStatus(sync_state).lastSyncAt = <<syncs[t].startedAt>>
        /\ SyncStatus(sync_state).lastError = <<>>

\* C37: the step in which a run commits leaves an anilist_last_sync that is
\* not earlier than the one stored before the step.
C37_LastSyncMonotonic ==
    [][\A t \in Triggers :
          ( /\ CommitStep(t) /\ syncs'[t].error = ""
            /\ sync_state.anilist_last_sync # <<>> )
          => sync_state'.anilist_last_sync[1] >= sync_state.anilist_last_sync[1]]_vars


\* The fetched rows are nodes with a media object and a title, and no two of
\* them share a schedule id.
DistinctEvents(rows) ==
    /\ \A n \in 1..Len(rows) : rows[n] \in Items
    /\ \A n \in 1..Len(rows), m \in 1..Len(rows) : rows[n].id = rows[m].id => n = m

\* C38: the batch of a run whose fetched rows are well-formed nodes with
\* pairwise distinct schedule ids commits, whatever catalog earlier runs
\* have left.
C38_DistinctEventsCommit ==
    [][\A t \in Triggers :
          (BatchStep(t) /\ DistinctEvents(FetchedRows(t))) => syncs'[t].error = ""]_vars


----------------------------------------------------------------------------
(* Accounts: what forgot-password and resend-verification tell *)

\* The owner (verified), the guest (not verified) and an address without an
\* account ask for a reset mail and for a verification mail.
DisclosureNext ==
    \/ \E email \in Emails : ForgotPassword(email)
    \/ \E email \in Emails : ResendVerification(email)
    \/ \E at \in Instants : TimePasses(at)

DisclosureSpec == SessionInit /\ [][DisclosureNext]_vars

\* C40: the response of forgot-password is the same status and body for an
\* email with an account and one without, whether the mail was sent or the
\* send failed; the response of resend-verification is the same for an email
\* without an account, with a verified account and with an unverified one,
\* whether the mail was sent or the send failed.
C40_NoAccountDisclosure ==
    [][ /\ response'.route = "POST /api/auth/forgot-password" =>
              \A email \in Emails :
                  ForgotPassword(email) =>
                      /\ response'.status = 200
                      /\ response'.body =
                            "{ok: true, message: 'If the account exists, a reset email was sent.'}"
                      /\ response'.token = NullId /\ response'.rows = {}
        /\ response'.route = "POST /api/auth/resend-verification" =>
              \A email \in Emails :
                  ResendVerification(email) =>
                      /\ response'.status = 200
                      /\ response'.body = "{ok: true}"
                      /\ response'.token = NullId /\ response'.rows = {}
      ]_vars

\* Only one token was issued since the guest registered, a reset token of the
\* owner, and the last response is that of forgot-password.
C40_Witness ==
    /\ response.route = "POST /api/auth/forgot-password"
    /\ issued = 2
    /\ \E r \in password_reset_tokens : r.user_id = 1 /\ r.token = 2


----------------------------------------------------------------------------
(* server.js: OAuth sign-in, the state token *)

\* The minutes an OAuth state lives, server.js:229
StateMinutes == 10

\* enabledOAuthProviders(), server.js:211-216, with both providers configured
EnabledOAuthProviders == {"google", "github"}

\* deleteExpiredOAuthStateStmt.run(now)
DeleteExpiredOAuthState(rows, at) == { r \in rows : ~ (r.expires_at <= at) }

\* issueOAuthState(provider), server.js:226-232, with the token
\* createSessionToken() returned
IssueOAuthState(rows, state, provider, at) ==
    DeleteExpiredOAuthState(rows, at)
    \cup { [state |-> state, provider |-> provider,
            expires_at |-> at + StateMinutes * MinuteMs] }

ConsumeOAuthStateKeeps(rows, state, provider, at) ==
    LET live == DeleteExpiredOAuthState(rows, at)
        found == { r \in live : r.state = state }
    IN IF found = {} THEN [ok |-> FALSE, rows |-> live]
       ELSE [ok |-> (CHOOSE r \in found : TRUE).provider = provider, rows |-> live]

\* consumeOAuthState(state, provider), server.js:218-224: what it returns and
\* the table it leaves
ConsumeOAuthState(rows, state, provider, at) ==
    LET live == DeleteExpiredOAuthState(rows, at)
        found == { r \in live : r.state = state }
    IN IF found = {} THEN [ok |-> FALSE, rows |-> live]
       ELSE LET row == CHOOSE r \in found : TRUE
            IN [ok |-> row.provider = provider /\ row.expires_at > at,
                rows |-> live \ found]

\* res.redirect(url): token is the state or the oauthToken of the url, body
\* its oauthError
Redirect(route, token, error) ==
    [NoResponse EXCEPT !.route = route, !.status = 302, !.token = token,
                       !.body = error]

\* GET /api/auth/oauth/:provider/start, server.js:481-519
OAuthStart(provider) ==
    /\ IF provider \notin EnabledOAuthProviders
       THEN /\ response' = Json("GET /api/auth/oauth/:provider/start", 400,
                                "{error: 'OAuth is not configured.'}")
            /\ UNCHANGED <<oauth_state_tokens, issued>>
       ELSE /\ issued < MaxIssued
            /\ oauth_state_tokens' =
                  IssueOAuthState(oauth_state_tokens, issued + 1, provider, now)
            /\ issued' = issued + 1
            /\ response' = Redirect("GET /api/auth/oauth/:provider/start",
                                    issued + 1, "")
    /\ UNCHANGED <<now, users, user_sessions, email_verification_tokens,
                   password_reset_tokens, tableVars>>

\* GET /api/auth/oauth/:provider/callback, server.js:521-555.  state NullId is
\* a query without state, code "" one without code.  identity tells whether
\* fetchOAuthIdentity returned a verified identity that findOrCreateOAuthUser
\* resolves to the owner's row, or the try block threw; the oauth_provider,
\* oauth_subject and timezone columns it writes are not part of the users
\* rows here.
OAuthCallback(provider, state, code, identity) ==
    LET route == "GET /api/auth/oauth/:provider/callback"
        consumed == ConsumeOAuthState(oauth_state_tokens, state, provider, now)
    IN /\ IF state = NullId \/ code = ""
          THEN /\ response' = Redirect(route, NullId, "Missing OAuth callback parameters.")
               /\ UNCHANGED <<oauth_state_tokens, user_sessions, issued>>
          ELSE /\ oauth_state_tokens' = consumed.rows
               /\ IF ~ consumed.ok
                  THEN /\ response' = Redirect(route, NullId, "Invalid OAuth state.")
                       /\ UNCHANGED <<user_sessions, issued>>
                  ELSE IF identity
                  THEN /\ issued < MaxIssued
                       /\ user_sessions' = CreateSession(user_sessions, 1, issued + 1, now)
                       /\ issued' = issued + 1
                       /\ response' = Redirect(route, issued + 1, "")
                  ELSE /\ response' = Redirect(route, NullId, "OAuth sign-in failed.")
                       /\ UNCHANGED <<user_sessions, issued>>
       /\ UNCHANGED <<now, users, email_verification_tokens, password_reset_tokens,
                      tableVars>>

OAuthProviders == {"google", "github", "gitlab"}

OAuthInit ==
    /\ now = 0
    /\ users = InitUsers
    /\ NoAuthTraffic
    /\ QuietTables

OAuthNext ==
    \/ \E provider \in OAuthProviders : OAuthStart(provider)
    \/ \E provider \in EnabledOAuthProviders, state \in Tokens \cup {NullId},
          code \in {"", "code"}, identity \in BOOLEAN :
          OAuthCallback(provider, state, code, identity)
    \/ \E at \in Instants : TimePasses(at)

OAuthSpec == OAuthInit /\ [][OAuthNext]_vars

\* The callback's response is one it gives after consumeOAuthState returned
\* true.
StateAccepted(answer) ==
    /\ answer.route = "GET /api/auth/oauth/:provider/callback"
    /\ answer.body \notin {"Missing OAuth callback parameters.", "Invalid OAuth state."}

\* C39: a callback is let past the state check only when the table holds its
\* state, unexpired and issued for its provider; after a callback that looked
\* its state up no row holds that state, whether the state matched or not;
\* and a row that enters the table holds a state that no request was given
\* before (tokens are numbered by the issued counter, which never goes
\* down), so no state is accepted twice.
C39_StateAcceptedOnce ==
    [][ /\ response'.route = "GET /api/auth/oauth/:provider/callback" =>
              \A provider \in OAuthProviders, state \in Tokens, identity \in BOOLEAN :
                  OAuthCallback(provider, state, "code", identity) =>
                      /\ StateAccepted(response') =>
                            \E r \in oauth_state_tokens :
                                /\ r.state = state
                                /\ r.provider = provider
                                /\ r.expires_at > now
                      /\ \A r \in oauth_state_tokens' : r.state # state
        /\ StateAccepted(response') =>
              \A provider \in OAuthProviders, state \in Tokens \cup {NullId} :
                  ~ OAuthCallback(provider, state, "", TRUE)
        /\ \A r \in oauth_state_tokens' \ oauth_state_tokens :
              r.state > issued /\ r.state <= issued'
        /\ issued' >= issued
        /\ \A r \in oauth_state_tokens : r.state <= issued ]_vars

\* State 1 was issued and a callback with it was accepted (session 2 is the
\* only token issued after it); a later callback was refused at the state
\* check.
C39_Witness ==
    /\ response = Redirect("GET /api/auth/oauth/:provider/callback", NullId,
                           "Invalid OAuth state.")
    /\ issued = 2
    /\ oauth_state_tokens = {}
    /\ \E s \in user_sessions : s.token = 2


----------------------------------------------------------------------------
(* A synced episode whose airing time moves *)

\* Schedule node 9001 as first served, and after AniList moved its airing
\* time by a minute.
FirstAiring == Item(9001, 101, 1)

MovedAiring == [FirstAiring EXCEPT !.airingAt = @ + 60]

\* A reminder with the longest lead: the synced episode is due at the first
\* tick, and again one minute later once its airing time has moved.
RescheduleInit ==
    /\ now = 0
    /\ users = InitUsers
    /\ NoAuthTraffic
    /\ anime = InitAnime
    /\ episodes = { Episode(1, 1, 1, Lead(MaxLeadMinutes) + LookaheadMs) }
    /\ reminders = { Reminder(1, NullId, "r@example.com", NullText, MaxLeadMinutes) }
    /\ notification_log = {}
    /\ scans = [t \in Triggers |-> IdleScan]
    /\ cronFiredAt = -1
    /\ delivered = [t \in Triples |-> 0]
    /\ failedTriples = {}
    /\ dueCount = [p \in Pairs |-> 0]
    /\ upstream = {FirstAiring}
    /\ syncs = [t \in Triggers |-> IdleSync]
    /\ sync_state = EmptySyncState
    /\ batchRuns = 0

\* AniList moves the airing time between two runs.
AiringMoves ==
    /\ \A t \in Triggers : syncs[t].pc = "idle"
    /\ upstream = {FirstAiring}
    /\ upstream' = {MovedAiring}
    /\ batchRuns' = 0
    /\ UNCHANGED <<dispatchVars, anime, episodes, syncs, sync_state>>

RescheduleNext ==
    \/ CronTick
    \/ ManualRun
    \/ \E t \in Triggers, ok \in BOOLEAN : DeliverySettles(t, ok)
    \/ \E t \in Triggers : ScanReturns(t)
    \/ ClockAdvances
    \/ SyncStarts("cron")
    \/ FetchResolves("cron")
    \/ SyncJobSettles
    \/ AiringMoves

RescheduleSpec == RescheduleInit /\ [][RescheduleNext]_vars

\* In this step scan t goes into a delivery call.
DeliveryBegins(t) ==
    /\ scans'[t].pc = "await"
    /\ scans'[t] # scans[t]

\* C35: a scan goes into a delivery call for a triple only when the ledger
\* holds no row for that triple, and no step of a scan or of a sync takes a
\* row out of the ledger or changes the id of an episode row: once the row
\* of a triple exists no scan delivers for the triple, wherever a sync moves
\* the episode's release time.
C35_LedgerOutlivesReschedule ==
    [][ /\ \A t \in Triggers :
              DeliveryBegins(t) =>
                  RowsIn(notification_log', VisitTriple(scans'[t], scans'[t].pos)) = {}
        /\ notification_log \subseteq notification_log'
        /\ \A e \in episodes, f \in episodes' :
              (e.source = "anilist" /\ f.external_id = e.external_id) => f.id = e.id
      ]_vars

\* The synced episode (row 2) was due at two ticks, at its first airing time
\* and at the moved one; the email went out once.
C35_Witness ==
    /\ dueCount[<<1, 2>>] = 2
    /\ delivered[<<1, 2, "email">>] = 1
    /\ \E e \in episodes : e.id = 2 /\ e.release_at = Lead(MaxLeadMinutes) + MinuteMs
    /\ RowsFor(<<1, 2, "email">>) # {}
    /\ scans["cron"].pc = "idle"

=============================================================================
